---- MODULE Spec2Model ----
(***************************************************************************)
(* Model of the gradient filters of grokfast.py: gradfilter_ma,            *)
(* gradfilter_ema, smoother and gradfilter_kalman, each called once per    *)
(* optimisation step by the training loop with the state the previous call *)
(* returned.                                                               *)
(*                                                                         *)
(* Tensor elements are IEEE 754 binary32 numbers, torch's default dtype:    *)
(* every operation rounds to nearest, ties to even, with subnormals,       *)
(* signed zeros, infinities and nan.  A hyperparameter is a python float,  *)
(* an IEEE 754 binary64 number: 1 - alpha and 1 + lamb are computed by     *)
(* python in binary64, and torch casts a python number to float32 when it  *)
(* meets a tensor.                                                         *)
(***************************************************************************)
EXTENDS Integers, Sequences, FiniteSets, TLC

\* ------------------------------------------------------------------ bounds
\* Number of filter calls (optimisation steps) explored in one run.
MaxCalls == 3
\* Largest window_size handed to gradfilter_ma.
MaxWindow == 2
\* The window_size, and the number of calls, of a gradfilter_ma run with a
\* long window.
LongWindow == 11
\* Number of gradfilter_kalman calls of a run that is fed one gradient over
\* and over.
MaxFeed == 30

\* Python's None, for an absent gradient and for an absent state.  A tensor has
\* at least one element and a state dictionary d is held as <<d>>, so neither
\* is ever equal to None.
None == <<>>

\* ------------------------------------------------------- scalar arithmetic
\* IEEE 754 binary32 with round-to-nearest-even, the arithmetic of a
\* torch.float32 tensor.  An element is <<s, m, e>>: sign s in {1, -1}, then
\*   m odd, 0 < m < 2^24, -149 =< e, m * 2^e < 2^128 : the number s * m * 2^e
\*   m = 0, e = 0 : the zero of sign s
\*   m = 0, e = 1 : the infinity of sign s
\*   m = 0, e = 2 : nan (s = 1)
\* Every value has one representation, so = on elements is identity of bits
\* (it tells 0.0 from -0.0, and nan = nan).
Abs(i) == IF i < 0 THEN -i ELSE i

Sign(i) == IF i < 0 THEN -1 ELSE IF i = 0 THEN 0 ELSE 1

Max(i, j) == IF i >= j THEN i ELSE j

Min(i, j) == IF i <= j THEN i ELSE j

\* Number of binary digits of n >= 0.
RECURSIVE BitLen(_)
BitLen(n) ==
    IF n < 16 THEN (IF n < 2 THEN n ELSE IF n < 4 THEN 2 ELSE IF n < 8 THEN 3 ELSE 4)
    ELSE 4 + BitLen(n \div 16)

\* Number of trailing zero binary digits of n > 0.
RECURSIVE TrailingZeros(_)
TrailingZeros(n) ==
    IF n % 2 = 1 THEN 0
    ELSE IF n % 16 = 0 THEN 4 + TrailingZeros(n \div 16)
    ELSE 1 + TrailingZeros(n \div 2)

Zero(s) == <<s, 0, 0>>

Inf(s) == <<s, 0, 1>>

NaN == <<1, 0, 2>>

IsNaN(x) == x[2] = 0 /\ x[3] = 2

IsInf(x) == x[2] = 0 /\ x[3] = 1

IsZero(x) == x[2] = 0 /\ x[3] = 0

IsFinite(x) == x[2] # 0 \/ x[3] = 0

\* s * n * 2^e with the z trailing zeros of n moved into the exponent.
Shifted(s, n, e, z) == <<s, n \div 2^z, e + z>>

\* The float s * n * 2^e of a significand n > 0 of at most 24 digits,
\* e >= -149.
Norm(s, n, e) ==
    IF n % 2 = 1 THEN <<s, n, e>> ELSE Shifted(s, n, e, TrailingZeros(n))

\* The same, once rounding has chosen n: it may have left nothing, or a
\* value beyond the largest float.
Carry(s, n, e) ==
    IF n = 0 THEN Zero(s)
    ELSE IF BitLen(n) + e > 128 THEN Inf(s)
    ELSE Norm(s, n, e)

\* The integer nearest to q + r/(2*half), 0 =< r < 2*half, or to a value just
\* above it when sticky; a tie goes to the even one.
Nearest(q, r, half, sticky) ==
    IF r > half \/ (r = half /\ (sticky \/ q % 2 = 1)) THEN q + 1 ELSE q

\* M \div 2^shift and M % 2^shift for 0 < shift =< 31.
Quot(M, shift) == IF shift = 31 THEN 0 ELSE M \div 2^shift

Rem(M, shift) == IF shift = 31 THEN M ELSE M % 2^shift

\* M * 2^e rounded at the digit of weight 2^(e + shift).
RoundAt(s, M, e, sticky, shift) ==
    IF shift > 31 THEN Zero(s)
    ELSE Carry(s,
               IF shift <= 0 THEN M
               ELSE Nearest(Quot(M, shift), Rem(M, shift), 2^(shift - 1), sticky),
               e + Max(shift, 0))

\* The float of sign s nearest to M * 2^e (M > 0), or to a value strictly
\* between M * 2^e and (M + 1) * 2^e when sticky; a tie goes to the even
\* significand.  A sticky M has at least 26 digits.  The 24 leading digits
\* are kept, fewer for a subnormal; an M of at most 24 digits in the normal
\* range is exact.
Round(s, M, e, sticky) ==
    IF M < 16777216 /\ e >= -149 /\ e <= 104 THEN Norm(s, M, e)
    ELSE RoundAt(s, M, e, sticky, Max(BitLen(M) - 24, -149 - e))

\* float(i) of a python int.
Num(i) == IF i = 0 THEN Zero(1) ELSE Round(Sign(i), Abs(i), 0, FALSE)

RNeg(x) == IF IsNaN(x) THEN x ELSE <<-x[1], x[2], x[3]>>

RAbs(x) == <<1, x[2], x[3]>>

\* The float nearest to s * v * 2^e for an integer v # 0.
Signed(s, v, e, sticky) == Round(s * Sign(v), Abs(v), e, sticky)

\* What is kept of the significand n, and whether anything is lost, when
\* its last db digits are dropped.
KeptDigits(n, db) == IF db >= 24 THEN 0 ELSE n \div 2^db

LostDigits(n, db) == IF db >= 24 THEN TRUE ELSE n % 2^db # 0

\* A + rel * (B + a fraction, when sticky) truncated to an integer.
Wide(A, rel, B, sticky) ==
    IF rel = 1 THEN A + B ELSE IF sticky THEN A - B - 1 ELSE A - B

\* hi + lo of two finite, nonzero floats that are not opposite, hi of the
\* larger exponent by d.  hi can be widened by sa >= 6 digits to 30 digits:
\* lo is aligned exactly if d =< sa, and otherwise loses d - sa digits, kept
\* as the sticky bit.
AddOrdered(hi, lo, d, sa) ==
    Signed(hi[1],
           IF d <= 6 \/ d <= sa THEN hi[2] * 2^d + hi[1] * lo[1] * lo[2]
           ELSE Wide(hi[2] * 2^sa, hi[1] * lo[1], KeptDigits(lo[2], d - sa),
                     LostDigits(lo[2], d - sa)),
           IF d <= 6 \/ d <= sa THEN lo[3] ELSE hi[3] - sa,
           d > 6 /\ d > sa /\ LostDigits(lo[2], d - sa))

\* The operand of the larger, and of the smaller, exponent.
Hi(x, y) == IF x[3] >= y[3] THEN x ELSE y

Lo(x, y) == IF x[3] >= y[3] THEN y ELSE x

\* x + y of two finite, nonzero floats.
AddFinite(x, y) ==
    IF x[2] = y[2] /\ x[3] = y[3] /\ x[1] # y[1] THEN Zero(1)
    ELSE AddOrdered(Hi(x, y), Lo(x, y), Abs(x[3] - y[3]), 30 - BitLen(Hi(x, y)[2]))

RAdd(x, y) ==
    IF x[2] # 0 /\ y[2] # 0 THEN AddFinite(x, y)
    ELSE IF IsNaN(x) \/ IsNaN(y) THEN NaN
    ELSE IF IsInf(x) THEN (IF IsInf(y) /\ x[1] # y[1] THEN NaN ELSE x)
    ELSE IF IsInf(y) THEN y
    ELSE IF IsZero(x) /\ IsZero(y) THEN (IF x[1] = y[1] THEN x ELSE Zero(1))
    ELSE IF IsZero(x) THEN y
    ELSE x

RSub(x, y) == RAdd(x, RNeg(y))

\* (H * 2^24 + L) * 2^e rounded, k the digits H can be widened by.
MulShift(s, e, H, L, k) ==
    Round(s, H * 2^k + L \div 2^(24 - k), e + 24 - k, L % 2^(24 - k) # 0)

\* The product hh * 2^24 + mid * 2^12 + ll as H * 2^24 + L, L < 2^24.
MulSum(s, e, hh, mid, low) ==
    MulShift(s, e, hh + mid \div 4096 + low \div 16777216, low % 16777216,
             Min(24, 30 - BitLen(hh + mid \div 4096 + low \div 16777216)))

MulParts(s, e, a1, a0, b1, b0) ==
    MulSum(s, e, a1 * b1, a1 * b0 + a0 * b1,
           ((a1 * b0 + a0 * b1) % 4096) * 4096 + a0 * b0)

\* x * y of two finite, nonzero floats: the 48-digit product of the
\* significands is built from 12-digit halves, its upper 30 digits rounded;
\* the product of two short significands in the normal range is exact.
MulFinite(x, y) ==
    IF x[2] < 4096 /\ y[2] < 4096 /\ x[3] + y[3] >= -149 /\ x[3] + y[3] <= 104
    THEN Norm(x[1] * y[1], x[2] * y[2], x[3] + y[3])
    ELSE MulParts(x[1] * y[1], x[3] + y[3],
                  x[2] \div 4096, x[2] % 4096, y[2] \div 4096, y[2] % 4096)

RMul(x, y) ==
    IF x[2] # 0 /\ y[2] # 0 THEN MulFinite(x, y)
    ELSE IF IsNaN(x) \/ IsNaN(y) THEN NaN
    ELSE IF IsInf(x) \/ IsInf(y)
         THEN (IF IsZero(x) \/ IsZero(y) THEN NaN ELSE Inf(x[1] * y[1]))
    ELSE Zero(x[1] * y[1])

\* Long division: <<q, r>> extended by bits more digits of r / B.
RECURSIVE DivDigits(_, _, _, _)
DivDigits(q, r, B, bits) ==
    IF bits = 0 THEN <<q, r>>
    ELSE IF bits >= 6
    THEN DivDigits(q * 64 + (r * 64) \div B, (r * 64) % B, B, bits - 6)
    ELSE DivDigits(q * 2 + (r * 2) \div B, (r * 2) % B, B, bits - 1)

\* x / y of two finite, nonzero floats, from the quotient qr[1] and the
\* remainder qr[2] of their significands.
DivRound(s, e, qr) == Round(s, qr[1], e, qr[2] # 0)

\* Long division of the significands of x and y, both widened to 24 digits
\* (by wx and wy), to 29 digits after the point.
DivScaled(x, y, wx, wy) ==
    DivDigits((x[2] * 2^wx) \div (y[2] * 2^wy),
              (x[2] * 2^wx) % (y[2] * 2^wy), y[2] * 2^wy, 29)

\* A significand that is a multiple of the other's gives an exact quotient.
DivFinite(x, y) ==
    DivRound(x[1] * y[1],
             IF x[2] % y[2] = 0 THEN x[3] - y[3]
             ELSE x[3] - y[3] - BitLen(y[2]) + BitLen(x[2]) - 29,
             IF x[2] % y[2] = 0 THEN <<x[2] \div y[2], 0>>
             ELSE DivScaled(x, y, 24 - BitLen(x[2]), 24 - BitLen(y[2])))

\* torch division: x/0 is +-inf, 0/0 and inf/inf are nan, finite/inf is 0.
RDiv(x, y) ==
    IF x[2] # 0 /\ y[2] # 0 THEN DivFinite(x, y)
    ELSE IF IsNaN(x) \/ IsNaN(y) THEN NaN
    ELSE IF IsInf(x) THEN (IF IsInf(y) THEN NaN ELSE Inf(x[1] * y[1]))
    ELSE IF IsInf(y) THEN Zero(x[1] * y[1])
    ELSE IF IsZero(y) THEN (IF IsZero(x) THEN NaN ELSE Inf(x[1] * y[1]))
    ELSE Zero(x[1] * y[1])

\* The float nearest to num/den.
Rat(num, den) == RDiv(Num(num), Num(den))

\* x < 0
IsNegative(x) == x[1] = -1 /\ ~IsZero(x)

\* x < y and x <= y of IEEE 754: false when an operand is nan, 0.0 = -0.0.
RLess(x, y) ==
    /\ ~IsNaN(x) /\ ~IsNaN(y)
    /\ x # y
    /\ IsNegative(RSub(x, y))

RLeq(x, y) ==
    /\ ~IsNaN(x) /\ ~IsNaN(y)
    /\ (x = y \/ (IsZero(x) /\ IsZero(y)) \/ RLess(x, y))

\* ------------------------------------------------------------ python floats
\* A hyperparameter is a python float, an IEEE 754 binary64 number.  It is
\* <<s, h, l, e>>: sign s in {1, -1}, then
\*   h * 2^30 + l odd, h < 2^23, l < 2^30 : the number s * (h * 2^30 + l) * 2^e
\*   h = l = 0, e = 0 : the zero of sign s
\*   h = l = 0, e = 1 : the infinity of sign s
\*   h = l = 0, e = 2 : nan (s = 1)
\* A natural number below 2^60 is held as <<H, L>>, H * 2^30 + L with
\* H, L < 2^30.
WBitLen(W) == IF W[1] = 0 THEN BitLen(W[2]) ELSE 30 + BitLen(W[1])

WTrailingZeros(W) ==
    IF W[2] # 0 THEN TrailingZeros(W[2]) ELSE 30 + TrailingZeros(W[1])

\* W \div 2^n and W % 2^n, n >= 0.
WShr(W, n) ==
    IF n >= 60 THEN <<0, 0>>
    ELSE IF n >= 30 THEN <<0, W[1] \div 2^(n - 30)>>
    ELSE <<W[1] \div 2^n, (W[1] % 2^n) * 2^(30 - n) + W[2] \div 2^n>>

WRem(W, n) ==
    IF n >= 60 THEN W
    ELSE IF n >= 30 THEN <<W[1] % 2^(n - 30), W[2]>>
    ELSE <<0, W[2] % 2^n>>

\* W * 2^n, for a product below 2^60.
WShl(W, n) ==
    IF n >= 30 THEN <<W[2] * 2^(n - 30), 0>>
    ELSE <<W[1] * 2^n + W[2] \div 2^(30 - n), (W[2] % 2^(30 - n)) * 2^n>>

WAdd(A, B) ==
    <<A[1] + B[1] + (A[2] + B[2]) \div 1073741824, (A[2] + B[2]) % 1073741824>>

\* A - B for A >= B.
WSub(A, B) ==
    IF A[2] >= B[2] THEN <<A[1] - B[1], A[2] - B[2]>>
    ELSE <<A[1] - B[1] - 1, (A[2] - B[2]) + 1073741824>>

WLess(A, B) == A[1] < B[1] \/ (A[1] = B[1] /\ A[2] < B[2])

PyZero(s) == <<s, 0, 0, 0>>

PyInf(s) == <<s, 0, 0, 1>>

PyNaN == <<1, 0, 0, 2>>

PyIsFinite(d) == d[2] # 0 \/ d[3] # 0 \/ d[4] = 0

PyIsZero(d) == d[2] = 0 /\ d[3] = 0 /\ d[4] = 0

\* The python float s * W * 2^e of a significand W > 0 of at most 53 digits,
\* whose z trailing zeros move into the exponent.
PyShifted(s, W, e) == <<s, W[1], W[2], e>>

PyNorm(s, W, e) ==
    PyShifted(s, WShr(W, WTrailingZeros(W)), e + WTrailingZeros(W))

\* q, or q + 1 when the digits r dropped below it round it up: r is more
\* than half, or is half with something beyond it or with q odd.
WNearest(q, r, half, sticky) ==
    IF WLess(half, r) \/ (r = half /\ (sticky \/ q[2] % 2 = 1))
    THEN WAdd(q, <<0, 1>>)
    ELSE q

\* The python float of sign s nearest to W * 2^e (W > 0), or to a value
\* strictly between W * 2^e and (W + 1) * 2^e when sticky, a tie going to the
\* even significand: the 53 leading digits of W are kept.  A sticky W has at
\* least 55 digits.  The results met here are in the normal range.
PyRoundAt(s, W, e, sticky, shift) ==
    IF shift <= 0 THEN PyNorm(s, W, e)
    ELSE PyNorm(s, WNearest(WShr(W, shift), WRem(W, shift),
                            WShl(<<0, 1>>, shift - 1), sticky),
                e + shift)

PyRound(s, W, e, sticky) == PyRoundAt(s, W, e, sticky, WBitLen(W) - 53)

\* float(i) of a python int below 2^30 in magnitude.
PyNum(i) == IF i = 0 THEN PyZero(1) ELSE PyNorm(Sign(i), <<0, Abs(i)>>, 0)

\* The quotient of A / B, two numbers of 24 digits, to 59 digits after the
\* point: hr holds the first 29 of them and the remainder they leave, and the
\* result is <<H, <<L, remainder>>>>.
PyQuotient(hr, B) == <<hr[1], DivDigits(0, hr[2], B, 30)>>

PyDivRound(s, e, q) == PyRound(s, <<q[1], q[2][1]>>, e, q[2][2] # 0)

PyScaled(s, A, B, e) ==
    PyDivRound(s, e, PyQuotient(DivDigits(A \div B, A % B, B, 29), B))

\* The python float num / den of two python ints below 2^24 in magnitude,
\* den > 0: the number a literal such as 0.98 = 98/100 denotes.
PyRat(num, den) ==
    IF num = 0 THEN PyZero(1)
    ELSE PyScaled(Sign(num), Abs(num) * 2^(24 - BitLen(Abs(num))),
                  den * 2^(24 - BitLen(den)),
                  BitLen(Abs(num)) - BitLen(den) - 59)

PyNeg(d) == IF d = PyNaN THEN d ELSE <<-d[1], d[2], d[3], d[4]>>

\* 0 * d of python, the int 0 taken as 0.0.
PyZeroTimes(d) == IF PyIsFinite(d) THEN PyZero(d[1]) ELSE PyNaN

\* A + B, or A - B less one more when sticky (B stands for a little more
\* than B).
WSum(A, s, B, sticky) ==
    IF s = 1 THEN WAdd(A, B)
    ELSE IF sticky THEN WSub(WSub(A, B), <<0, 1>>)
    ELSE WSub(A, B)

\* 1.0 + t for |t| >= 1, t = s * M * 2^e with M of b digits: M is widened to
\* 59 digits, and 1.0 is one digit of that window or lies below it.
PyOnePlusLarge(s, M, e, b) ==
    PyRound(s,
            WSum(WShl(M, 59 - b), s,
                 IF e + b <= 59 THEN WShl(<<0, 1>>, 59 - b - e) ELSE <<0, 0>>,
                 e + b > 59),
            e + b - 59,
            e + b > 59)

\* 1.0 + t for |t| < 1: 1.0 is 2^58 units of 2^-58, and t is aligned to that
\* unit, exactly or losing its last -(e + 58) digits.
PyOnePlusSmall(s, M, e) ==
    PyRound(1,
            WSum(<<268435456, 0>>, s,
                 IF e + 58 >= 0 THEN WShl(M, e + 58) ELSE WShr(M, -(e + 58)),
                 e + 58 < 0),
            -58,
            e + 58 < 0)

\* 1 + t of python, t a python float: the int 1 becomes 1.0 and the sum is
\* rounded to binary64.
PyOnePlus(t) ==
    IF ~PyIsFinite(t) THEN t
    ELSE IF PyIsZero(t) THEN PyNum(1)
    ELSE IF t = PyNum(-1) THEN PyZero(1)
    ELSE IF t[4] + WBitLen(<<t[2], t[3]>>) >= 1
         THEN PyOnePlusLarge(t[1], <<t[2], t[3]>>, t[4], WBitLen(<<t[2], t[3]>>))
         ELSE PyOnePlusSmall(t[1], <<t[2], t[3]>>, t[4])

\* The python float as torch hands it to an operation on a float32 tensor:
\* rounded to binary32.  The 30 leading digits of a longer significand are
\* enough, the rest being the sticky bit.
Float32(d) ==
    IF d = PyNaN THEN NaN
    ELSE IF ~PyIsFinite(d) THEN Inf(d[1])
    ELSE IF PyIsZero(d) THEN Zero(d[1])
    ELSE Round(d[1],
               IF d[2] = 0 THEN d[3]
               ELSE WShr(<<d[2], d[3]>>, WBitLen(<<d[2], d[3]>>) - 30)[2],
               IF d[2] = 0 THEN d[4] ELSE d[4] + WBitLen(<<d[2], d[3]>>) - 30,
               d[2] # 0)

\* ------------------------------------------------------- tensor arithmetic
\* A tensor is the sequence of its elements; every operation is elementwise.
TAdd(s, t) == [i \in 1..Len(s) |-> RAdd(s[i], t[i])]

TSub(s, t) == [i \in 1..Len(s) |-> RSub(s[i], t[i])]

TMul(s, t) == [i \in 1..Len(s) |-> RMul(s[i], t[i])]

TDiv(s, t) == [i \in 1..Len(s) |-> RDiv(s[i], t[i])]

\* tensor (op) float32 number
TTimes(t, x) == [i \in 1..Len(t) |-> RMul(t[i], x)]

TDivide(t, x) == [i \in 1..Len(t) |-> RDiv(t[i], x)]

TShift(t, x) == [i \in 1..Len(t) |-> RAdd(t[i], x)]

TFrom(x, t) == [i \in 1..Len(t) |-> RSub(x, t[i])]

\* tensor (op) python number: torch casts the number to the tensor's dtype
\* and the operation is the float32 one.
TScale(t, c) == TTimes(t, Float32(c))

TOver(t, c) == TDivide(t, Float32(c))

TPlus(t, c) == TShift(t, Float32(c))

\* c - tensor
TRsub(c, t) == TFrom(Float32(c), t)

zeros_like(t) == [i \in 1..Len(t) |-> Num(0)]

ones_like(t) == [i \in 1..Len(t) |-> Num(1)]

\* ------------------------------------------------------------- the module
\* m.named_parameters(), in registration order.
Names == <<"a", "b">>

NameSet == {Names[i] : i \in 1..Len(Names)}

\* Number of elements of each parameter.
Numel(n) == IF n = "a" THEN 2 ELSE 1

\* The test without requires_grad: a frozen parameter with a gradient passes.
HasGrad_ignoring_requires_grad(mod, n) == mod[n].grad # None

\* p.requires_grad and p.grad is not None
HasGrad(mod, n) == mod[n].requires_grad /\ mod[n].grad # None

\* collections.deque(maxlen=...): an empty deque, or the ValueError a negative
\* maxlen raises.
deque(maxlen) ==
    IF maxlen < 0 THEN [err |-> "ValueError"]
    ELSE [maxlen |-> maxlen, items |-> <<>>]

\* append without the capacity: the deque grows past maxlen.
append_unbounded(dq, x) == [dq EXCEPT !.items = Append(@, x)]

\* append that keeps a full deque as it is: the new item is the one dropped.
append_drop_newest(dq, x) ==
    IF Len(dq.items) >= dq.maxlen THEN dq
    ELSE [dq EXCEPT !.items = Append(@, x)]

\* deque.append: a full deque drops its leftmost item, a deque of capacity 0
\* drops the new one.
append(dq, x) ==
    IF dq.maxlen = 0 THEN dq
    ELSE IF Len(dq.items) = dq.maxlen
         THEN [dq EXCEPT !.items = Append(Tail(@), x)]
         ELSE [dq EXCEPT !.items = Append(@, x)]

\* python sum() of a non-empty sequence of tensors: ((0 + t1) + t2) + ...
RECURSIVE SumFrom(_, _)
SumFrom(acc, items) ==
    IF items = <<>> THEN acc ELSE SumFrom(TAdd(acc, Head(items)), Tail(items))

PySum(items) == SumFrom(TPlus(Head(items), PyNum(0)), Tail(items))

\* --------------------------------------------------------- gradfilter_ma
\* The condition under which gradfilter_ma modifies the gradient ("and" binds
\* tighter than "or").
ma_due(len, window_size, warmup, trigger) ==
    ~warmup \/ (len = window_size /\ ~trigger)

\* avg whose mean divides by one more than the buffer length.
ma_avg_off_by_one(items, filter_type) ==
    IF filter_type = "mean" THEN TOver(PySum(items), PyNum(Len(items) + 1))
    ELSE PySum(items)

\* avg for the two recognised values of filter_type.
ma_avg(items, filter_type) ==
    IF filter_type = "mean" THEN TOver(PySum(items), PyNum(Len(items)))
    ELSE PySum(items)

\* p.grad.data = p.grad.data + avg * lamb
ma_apply(grad, avg, lamb) == TAdd(grad, TScale(avg, lamb))

\* The loop over m.named_parameters(), from the i-th parameter on.  g is the
\* dictionary of deques, mutated as the loop goes; an exception ends the loop.
RECURSIVE ma_loop(_, _, _, _, _)
ma_loop(i, mod, g, hp, trigger) ==
    IF i > Len(Names) THEN [m |-> mod, grads |-> g, err |-> "none"]
    ELSE LET n == Names[i] IN
         IF ~HasGrad(mod, n) THEN ma_loop(i + 1, mod, g, hp, trigger)
         ELSE IF n \notin DOMAIN g THEN [m |-> mod, grads |-> g, err |-> "KeyError"]
         ELSE LET g1 == [g EXCEPT ![n] = append(@, mod[n].grad)]
                  items == g1[n].items
              IN  IF ma_due(Len(items), hp.window_size, hp.warmup, trigger)
                  THEN IF hp.filter_type \notin {"mean", "sum"}
                       THEN [m |-> mod, grads |-> g1, err |-> "ValueError"]
                       ELSE IF hp.filter_type = "mean" /\ items = <<>>
                       THEN [m |-> mod, grads |-> g1, err |-> "ZeroDivisionError"]
                       ELSE IF items = <<>>
                       THEN ma_loop(i + 1,
                                    [mod EXCEPT ![n].grad =
                                        TPlus(@, PyZeroTimes(hp.lamb))],
                                    g1, hp, trigger)
                       ELSE ma_loop(i + 1,
                                    [mod EXCEPT ![n].grad =
                                        ma_apply(@, ma_avg(items, hp.filter_type), hp.lamb)],
                                    g1, hp, trigger)
                  ELSE ma_loop(i + 1, mod, g1, hp, trigger)

\* gradfilter_ma that builds fresh deques on every call.
gradfilter_ma_recreate(mod, g, hp, trigger) ==
    ma_loop(1, mod,
            [n \in {k \in NameSet : HasGrad(mod, k)} |-> deque(hp.window_size)],
            hp, trigger)

\* gradfilter_ma that, like gradfilter_ema, does no bookkeeping on a
\* triggered call.
gradfilter_ma_idle_when_triggered(mod, g, hp, trigger) ==
    IF trigger
    THEN [m |-> mod,
          grads |-> IF g = None
                    THEN [n \in {k \in NameSet : HasGrad(mod, k)} |->
                            deque(hp.window_size)]
                    ELSE g[1],
          err |-> "none"]
    ELSE ma_loop(1, mod,
                 IF g = None
                 THEN [n \in {k \in NameSet : HasGrad(mod, k)} |->
                         deque(hp.window_size)]
                 ELSE g[1],
                 hp, trigger)

\* The dictionary comprehension of line 17 raises with the first deque it
\* builds when window_size is negative; the call then returns nothing.
gradfilter_ma(mod, g, hp, trigger) ==
    IF /\ g = None
       /\ \E n \in NameSet : HasGrad(mod, n)
       /\ "err" \in DOMAIN deque(hp.window_size)
    THEN [m |-> mod, grads |-> None, err |-> deque(hp.window_size).err]
    ELSE ma_loop(1, mod,
                 IF g = None
                 THEN [n \in {k \in NameSet : HasGrad(mod, k)} |->
                         deque(hp.window_size)]
                 ELSE g[1],
                 hp, trigger)

\* The accumulator update with the two weights exchanged.
ema_acc_swapped(acc, grad, alpha) ==
    TAdd(TScale(acc, PyOnePlus(PyNeg(alpha))), TScale(grad, alpha))

\* -------------------------------------------------------- gradfilter_ema
\* grads[n] = grads[n] * alpha + p.grad.data.detach() * (1 - alpha)
ema_acc(acc, grad, alpha) ==
    TAdd(TScale(acc, alpha), TScale(grad, PyOnePlus(PyNeg(alpha))))

\* The blend without the division by 1 + lamb.
ema_grad_unnormalised(grad, acc, lamb) == TAdd(grad, TScale(acc, lamb))

\* p.grad.data = (p.grad.data + grads[n] * lamb) / (1 + lamb)
ema_grad(grad, acc, lamb) ==
    TOver(TAdd(grad, TScale(acc, lamb)), PyOnePlus(lamb))

\* The loop body blending the gradient with the accumulator of before the
\* update.
ema_step_stale_acc(acc, grad, alpha, lamb) ==
    [acc |-> ema_acc(acc, grad, alpha), grad |-> ema_grad(grad, acc, lamb)]

\* The two statements of the loop body, for one parameter.
ema_step(acc, grad, alpha, lamb) ==
    LET acc1 == ema_acc(acc, grad, alpha)
    IN  [acc |-> acc1, grad |-> ema_grad(grad, acc1, lamb)]

RECURSIVE ema_loop(_, _, _, _, _)

\* gradfilter_ema that ignores its trigger.
gradfilter_ema_untriggered(mod, g, hp, trigger) ==
    ema_loop(1, mod,
             IF g = None
             THEN [n \in {k \in NameSet : HasGrad(mod, k)} |-> mod[n].grad]
             ELSE g[1],
             hp, FALSE)

ema_loop(i, mod, g, hp, trigger) ==
    IF i > Len(Names) THEN [m |-> mod, grads |-> g, err |-> "none"]
    ELSE LET n == Names[i] IN
         IF ~HasGrad(mod, n) \/ trigger THEN ema_loop(i + 1, mod, g, hp, trigger)
         ELSE IF n \notin DOMAIN g THEN [m |-> mod, grads |-> g, err |-> "KeyError"]
         ELSE LET s == ema_step(g[n], mod[n].grad, hp.alpha, hp.lamb)
              IN  ema_loop(i + 1, [mod EXCEPT ![n].grad = s.grad],
                           [g EXCEPT ![n] = s.acc], hp, trigger)

gradfilter_ema(mod, g, hp, trigger) ==
    ema_loop(1, mod,
             IF g = None
             THEN [n \in {k \in NameSet : HasGrad(mod, k)} |-> mod[n].grad]
             ELSE g[1],
             hp, trigger)

\* --------------------------------------------------------------- smoother
\* z[n] = z[n] + beta * (p.data - z[n])
smoother_z(z, data, beta) == TAdd(z, TScale(TSub(data, z), beta))

\* p.grad.data -= pp * (p.data - z[n])
smoother_grad(grad, data, z, pp) == TSub(grad, TScale(TSub(data, z), pp))

\* z is rebuilt from p.data on every call and the dictionary grads is never
\* indexed, so the loop only rewrites the gradients.
RECURSIVE smoother_loop(_, _, _, _)
smoother_loop(i, mod, z, hp) ==
    IF i > Len(Names) THEN mod
    ELSE LET n == Names[i] IN
         IF ~HasGrad(mod, n) THEN smoother_loop(i + 1, mod, z, hp)
         ELSE LET zn == smoother_z(z[n], mod[n].data, hp.beta)
              IN  smoother_loop(i + 1,
                                [mod EXCEPT ![n].grad =
                                    smoother_grad(@, mod[n].data, zn, hp.pp)],
                                [z EXCEPT ![n] = zn], hp)

\* A smoother whose shadow z starts from the initial parameter value instead
\* of the current one.
smoother_stale_z(mod, g, hp) ==
    LET z    == [n \in {k \in NameSet : HasGrad(mod, k)} |->
                    [i \in 1..Numel(n) |-> Num(1)]]
        mod1 == smoother_loop(1, mod, z, hp)
    IN  [m |-> mod1,
         grads |-> IF g = None
                   THEN [n \in {k \in NameSet : HasGrad(mod, k)} |-> mod1[n].grad]
                   ELSE g[1],
         err |-> "none"]

\* A state created by this call holds p.grad.data.detach(), which shares its
\* storage with p.grad.data: the in-place "-=" of the loop shows in it.
smoother(mod, g, hp) ==
    LET z    == [n \in {k \in NameSet : HasGrad(mod, k)} |-> mod[n].data]
        mod1 == smoother_loop(1, mod, z, hp)
    IN  [m |-> mod1,
         grads |-> IF g = None
                   THEN [n \in {k \in NameSet : HasGrad(mod, k)} |-> mod1[n].grad]
                   ELSE g[1],
         err |-> "none"]

\* ----------------------------------------------------- gradfilter_kalman
\* The update step taking the posterior variance from P instead of P_pred.
kalman_step_prior_P(st, grad, process_noise, measurement_noise) ==
    LET P_pred == TPlus(st.P, process_noise)
        K      == TDiv(P_pred, TPlus(P_pred, measurement_noise))
    IN  [x |-> TAdd(st.x, TMul(K, TSub(grad, st.x))),
         P |-> TMul(TRsub(PyNum(1), K), st.P), K |-> K]

\* The update step with the innovation's sign reversed.
kalman_step_wrong_sign(st, grad, process_noise, measurement_noise) ==
    LET P_pred == TPlus(st.P, process_noise)
        K      == TDiv(P_pred, TPlus(P_pred, measurement_noise))
    IN  [x |-> TAdd(st.x, TMul(K, TSub(st.x, grad))),
         P |-> TMul(TRsub(PyNum(1), K), P_pred), K |-> K]

\* The update step dividing by the measurement noise alone, not by S.
kalman_step_gain_over_R(st, grad, process_noise, measurement_noise) ==
    LET x_pred == st.x
        P_pred == TPlus(st.P, process_noise)
        y      == TSub(grad, x_pred)
        K      == TDiv(P_pred, TScale(ones_like(P_pred), measurement_noise))
        x      == TAdd(x_pred, TMul(K, y))
        P      == TMul(TRsub(PyNum(1), K), P_pred)
    IN  [x |-> x, P |-> P, K |-> K]

\* Prediction and update step for one parameter; st is grads[n].
kalman_step(st, grad, process_noise, measurement_noise) ==
    LET x_pred == st.x
        P_pred == TPlus(st.P, process_noise)
        y      == TSub(grad, x_pred)
        S      == TPlus(P_pred, measurement_noise)
        K      == TDiv(P_pred, S)
        x      == TAdd(x_pred, TMul(K, y))
        P      == TMul(TRsub(PyNum(1), K), P_pred)
    IN  [x |-> x, P |-> P, K |-> K]

\* The injection without the gain: x is added as it is.
kalman_grad_unit_gain(grad, x, lamb) == TAdd(grad, x)

\* p.grad.data += x * lamb
kalman_grad(grad, x, lamb) == TAdd(grad, TScale(x, lamb))

\* k collects the gain K each processed parameter used (a local of the loop).
RECURSIVE kalman_loop(_, _, _, _, _)

\* gradfilter_kalman that creates P as ones, not as ones * measurement_noise.
gradfilter_kalman_unit_P(mod, g, hp) ==
    kalman_loop(1, mod,
                IF g = None
                THEN [n \in {k \in NameSet : HasGrad(mod, k)} |->
                        [x |-> zeros_like(mod[n].grad),
                         P |-> ones_like(mod[n].grad)]]
                ELSE g[1],
                [n \in NameSet |-> None], hp)

kalman_loop(i, mod, g, k, hp) ==
    IF i > Len(Names) THEN [m |-> mod, grads |-> g, err |-> "none", K |-> k]
    ELSE LET n == Names[i] IN
         IF ~HasGrad(mod, n) THEN kalman_loop(i + 1, mod, g, k, hp)
         ELSE IF n \notin DOMAIN g
         THEN [m |-> mod, grads |-> g, err |-> "KeyError", K |-> k]
         ELSE LET s == kalman_step(g[n], mod[n].grad, hp.process_noise,
                                   hp.measurement_noise)
              IN  kalman_loop(i + 1,
                              [mod EXCEPT ![n].grad = kalman_grad(@, s.x, hp.lamb)],
                              [g EXCEPT ![n] = [x |-> s.x, P |-> s.P]],
                              [k EXCEPT ![n] = s.K], hp)

\* gradfilter_kalman that creates x as the gradient, not as zeros.
gradfilter_kalman_seeded_x(mod, g, hp) ==
    kalman_loop(1, mod,
                IF g = None
                THEN [n \in {k \in NameSet : HasGrad(mod, k)} |->
                        [x |-> mod[n].grad,
                         P |-> TScale(ones_like(mod[n].grad), hp.measurement_noise)]]
                ELSE g[1],
                [n \in NameSet |-> None], hp)

gradfilter_kalman(mod, g, hp) ==
    kalman_loop(1, mod,
                IF g = None
                THEN [n \in {k \in NameSet : HasGrad(mod, k)} |->
                        [x |-> zeros_like(mod[n].grad),
                         P |-> TScale(ones_like(mod[n].grad), hp.measurement_noise)]]
                ELSE g[1],
                [n \in NameSet |-> None], hp)

\* ------------------------------------------------------ the training loop
VARIABLES
    kind,   \* args.filter: the filter the run uses
    hp,     \* the hyperparameters the run passes to every call
    m,      \* the module's parameters: requires_grad, grad, data
    grads,  \* the loop's variable grads: None or <<state dictionary>>
    err,    \* "none", or the exception that ended the run
    calls,  \* filter calls made so far
    raw,    \* the parameters as the last call received them (after backward)
    prev,   \* the state the last call received
    trig,   \* the trigger the last call received
    alltrig, \* every call before the last one received trigger = true
    seen,   \* per parameter: calls so far in which it had a gradient
    hist,   \* per parameter: its raw gradients over those calls, oldest first
    gain,   \* per parameter: the Kalman gain K of the last call, or None
    args,   \* args.two_stage, starting_point, enable_lr_update, batch_size
    pc,     \* the statement the loop is at
    is_train, \* the split the loop is on: TRUE train_data, FALSE valid_data
    epoch,  \* the loop's e: the epoch the loop is in
    pos,    \* the index in dl of the batch the loop is on
    step,   \* the loop's i: optimizer steps taken
    nback   \* backward passes made so far

loop == <<args, pc, is_train, epoch, pos, step, nback>>

vars == <<kind, hp, m, grads, err, calls, raw, prev, trig, alltrig,
                   seen, hist, gain,
          args, pc, is_train, epoch, pos, step, nback>>

Kinds == {"ma", "ema", "smoother", "kalman"}

Lambs == {PyNum(0), PyNum(1), PyNum(4)}

HyperParams(k) ==
    IF k = "ma"
    THEN [window_size : 1..MaxWindow, lamb : Lambs,
          filter_type : {"mean", "sum", "median"}, warmup : BOOLEAN]
    ELSE IF k = "ema"
    THEN [alpha : {PyNum(0), PyRat(1, 10), PyRat(1, 2), PyRat(49, 50), PyNum(1)},
          lamb : Lambs]
    ELSE IF k = "smoother"
    THEN [beta : {PyNum(0), PyRat(1, 2), PyNum(1)}, pp : Lambs]
    ELSE [process_noise : {PyNum(0), PyNum(1)},
          measurement_noise : {PyNum(0), PyNum(1), PyNum(3)}, lamb : Lambs]

\* The gradients a backward pass may leave on a parameter.
Tensors(n) ==
    IF n = "a" THEN {<<Num(0), Num(1)>>, <<Num(3), Num(-1)>>}
    ELSE {<<Num(1)>>, <<Num(2)>>}

\* What a step may present for parameter n: trainable with or without a
\* gradient, or (for "b") frozen with a gradient left from before.
ParamInputs(n) ==
    {[requires_grad |-> TRUE, grad |-> t] : t \in Tensors(n) \cup {None}}
    \cup (IF n = "b" THEN {[requires_grad |-> FALSE, grad |-> <<Num(1)>>]} ELSE {})

Batches == {b \in [NameSet -> UNION {ParamInputs(n) : n \in NameSet}] :
                \A n \in NameSet : b[n] \in ParamInputs(n)}

\* The parameter values an optimizer step may leave.
DataChoices ==
    {[n \in NameSet |-> [i \in 1..Numel(n) |-> Num(v)]] : v \in {1, 3}}

\* model.zero_grad(); loss.backward()
Backward(batch, data) ==
    [n \in NameSet |-> [requires_grad |-> batch[n].requires_grad,
                        grad |-> batch[n].grad, data |-> data[n]]]

Data == [n \in NameSet |-> m[n].data]

\* The model as constructed, before any backward pass and any filter call,
\* and the state the first call will be passed.
StartFrom(state) ==
    /\ m = [n \in NameSet |-> [requires_grad |-> TRUE, grad |-> None,
                               data |-> [i \in 1..Numel(n) |-> Num(1)]]]
    /\ grads = state
    /\ err = "none"
    /\ calls = 0
    /\ raw = m
    /\ prev = None
    /\ trig = FALSE
    /\ alltrig = TRUE
    /\ seen = [n \in NameSet |-> 0]
    /\ hist = [n \in NameSet |-> <<>>]
    /\ gain = [n \in NameSet |-> None]
    /\ args = [two_stage |-> FALSE, starting_point |-> 0,
               enable_lr_update |-> FALSE, batch_size |-> 1]
    /\ pc = "filter"
    /\ is_train = TRUE
    /\ epoch = 0
    /\ pos = 0
    /\ step = 0
    /\ nback = 0

\* The loop starts without a state: the first call creates it.
Start == StartFrom(None)

Init ==
    /\ kind \in Kinds
    /\ hp \in HyperParams(kind)
    /\ Start

\* An exception ends the run.
Running == calls < MaxCalls /\ err = "none"

\* grads = filter(...): the loop keeps what the call returned.  A call that
\* raises returns nothing; a dictionary that was passed in has been mutated
\* in place up to the raise.
Record(mod, r, trigger, k) ==
    /\ m' = r.m
    /\ grads' = IF r.err = "none" \/ grads # None THEN <<r.grads>> ELSE None
    /\ err' = r.err
    /\ calls' = calls + 1
    /\ raw' = mod
    /\ prev' = grads
    /\ trig' = trigger
    /\ alltrig' = (calls = 0 \/ (alltrig /\ trig))
    /\ seen' = [n \in NameSet |-> IF HasGrad(mod, n) THEN seen[n] + 1 ELSE seen[n]]
    /\ hist' = [n \in NameSet |->
                  IF HasGrad(mod, n) THEN Append(hist[n], mod[n].grad) ELSE hist[n]]
    /\ gain' = k
    /\ UNCHANGED <<kind, hp>>

NoGain == [n \in NameSet |-> None]

CallMA ==
    /\ kind = "ma" /\ Running
    /\ \E batch \in Batches, trigger \in BOOLEAN :
          LET mod == Backward(batch, Data)
          IN  Record(mod, gradfilter_ma(mod, grads, hp, trigger), trigger, NoGain)
    /\ UNCHANGED loop

CallEMA ==
    /\ kind = "ema" /\ Running
    /\ \E batch \in Batches, trigger \in BOOLEAN :
          LET mod == Backward(batch, Data)
          IN  Record(mod, gradfilter_ema(mod, grads, hp, trigger), trigger, NoGain)
    /\ UNCHANGED loop

CallSmoother ==
    /\ kind = "smoother" /\ Running
    /\ \E batch \in Batches, data \in DataChoices :
          LET mod == Backward(batch, data)
          IN  Record(mod, smoother(mod, grads, hp), FALSE, NoGain)
    /\ UNCHANGED loop

CallKalman ==
    /\ kind = "kalman" /\ Running
    /\ \E batch \in Batches :
          LET mod == Backward(batch, Data)
              r   == gradfilter_kalman(mod, grads, hp)
          IN  Record(mod, r, FALSE, r.K)
    /\ UNCHANGED loop

Next == CallMA \/ CallEMA \/ CallSmoother \/ CallKalman

Spec == Init /\ [][Next]_vars

InitMA == Init /\ kind = "ma"

NextMA == CallMA

SpecMA == InitMA /\ [][NextMA]_vars

\* A run of gradfilter_ma with a long window that fills up: Linear 'a' has no
\* gradient and every backward pass leaves one on 'b'.
LongBatches ==
    {b \in Batches : /\ ~HasGrad(Backward(b, Data), "a")
                     /\ b["a"].requires_grad
                     /\ HasGrad(Backward(b, Data), "b")}

InitLongMA ==
    /\ kind = "ma"
    /\ Start
    /\ hp \in {[h EXCEPT !.window_size = LongWindow] :
                 h \in {k \in HyperParams("ma") :
                          k.filter_type # "median" /\ k.lamb # PyNum(0)}}

CallLongMA ==
    /\ kind = "ma" /\ calls < LongWindow /\ err = "none"
    /\ \E batch \in LongBatches :
          LET mod == Backward(batch, Data)
          IN  Record(mod, gradfilter_ma(mod, grads, hp, FALSE), FALSE, NoGain)
    /\ UNCHANGED loop

NextLongMA == CallLongMA

SpecLongMA == InitLongMA /\ [][NextLongMA]_vars

InitEMA == Init /\ kind = "ema"

NextEMA == CallEMA

SpecEMA == InitEMA /\ [][NextEMA]_vars

InitSmoother == Init /\ kind = "smoother"

NextSmoother == CallSmoother

SpecSmoother == InitSmoother /\ [][NextSmoother]_vars

InitKalman == Init /\ kind = "kalman"

NextKalman == CallKalman

SpecKalman == InitKalman /\ [][NextKalman]_vars

\* A long run of gradfilter_kalman with positive noises in which every
\* backward pass leaves the gradients the first one left.
FeedBatches == {b \in Batches : \A n \in NameSet : HasGrad(Backward(b, Data), n)}

InitFeed ==
    /\ Init /\ kind = "kalman"
    /\ RLess(Num(0), Float32(hp.process_noise))
    /\ RLess(Num(0), Float32(hp.measurement_noise))

FeedKalman ==
    /\ kind = "kalman" /\ calls < MaxFeed /\ err = "none"
    /\ \E batch \in FeedBatches :
          LET mod == Backward(batch, Data)
              r   == gradfilter_kalman(mod, grads, hp)
          IN  /\ calls > 0 => \A n \in NameSet : mod[n].grad = raw[n].grad
              /\ Record(mod, r, FALSE, r.K)
    /\ UNCHANGED loop

NextFeed == FeedKalman

SpecFeed == InitFeed /\ [][NextFeed]_vars

\* The gain of the run's filter: pp for smoother, lamb for the others.
Gain == IF kind = "smoother" THEN hp.pp ELSE hp.lamb

SuppliedCalls == 2

\* The tensors of a state built by the caller: of finite values, or with an
\* infinite one.
SuppliedTensors ==
    {[n \in NameSet |-> IF n = "a" THEN <<Num(3), Num(-1)>> ELSE <<Num(2)>>],
     [n \in NameSet |-> IF n = "a" THEN <<Num(0), Num(1)>> ELSE <<Inf(1)>>]}

\* The dictionaries a caller may pass as grads to the first call of filter k
\* instead of None: a deque holding one gradient, an accumulator, or an
\* estimate with its variance for every parameter.
Supplied(k, h) ==
    IF k = "ma"
    THEN {[n \in NameSet |-> [maxlen |-> h.window_size, items |-> <<t[n]>>]] :
            t \in SuppliedTensors}
    ELSE IF k = "kalman"
    THEN {[n \in NameSet |-> [x |-> t[n], P |-> [i \in 1..Numel(n) |-> Num(v)]]] :
            t \in SuppliedTensors, v \in {0, 1}}
    ELSE SuppliedTensors

\* Runs of any filter with gain 0, from no state or from a supplied one.
InitZeroGain ==
    /\ kind \in Kinds
    /\ hp \in HyperParams(kind)
    /\ Gain = PyNum(0)
    /\ \E state \in {None} \cup {<<g>> : g \in Supplied(kind, hp)} : StartFrom(state)

\* The calls made on one state in these runs.
NextZeroGain ==
    \/ calls < SuppliedCalls /\ CallMA
    \/ calls < SuppliedCalls /\ CallEMA
    \/ calls < SuppliedCalls /\ CallSmoother
    \/ calls < SuppliedCalls /\ CallKalman

SpecZeroGain == InitZeroGain /\ [][NextZeroGain]_vars

\* Runs of any filter with gain 1.
InitUnitGain == Init /\ Gain = PyNum(1)

SpecUnitGain == InitUnitGain /\ [][Next]_vars

\* The dispatch on args.filter for the four filters: the call the loop makes
\* and the (module, state, error) it leaves.
Filter(k, mod, g, h, trigger) ==
    IF k = "ma" THEN gradfilter_ma(mod, g, h, trigger)
    ELSE IF k = "ema" THEN gradfilter_ema(mod, g, h, trigger)
    ELSE IF k = "smoother" THEN smoother(mod, g, h)
    ELSE LET r == gradfilter_kalman(mod, g, h)
         IN  [m |-> r.m, grads |-> r.grads, err |-> r.err]

\* ------------------------------------- the training loop, step by step
\* int(args.budget): the optimizer steps the run is given.
Budget == 2

\* The largest args.starting_point of the runs.
StartingPoint == 1

\* The values args.filter may take: the five the dispatch knows and one it
\* does not.
Filters == Kinds \cup {"none", "fft"}

\* The filter raises no error for every kind, known or not.
dispatch_error_lenient(k) == "none"

\* The else branch of the dispatch: raise ValueError for an unknown kind.
dispatch_error(k) == IF k \in Kinds \cup {"none"} THEN "none" ELSE "ValueError"

\* The backward pass, filter and optimizer step made on every batch.
backward_always(train) == TRUE

\* if is_train: the backward pass, filter and optimizer step are made on
\* batches of train_data only.
backward_due(train) == train

\* The trigger taken from the step index alone, two_stage or not.
Trigger_ignoring_two_stage(i, a) == i < a.starting_point

\* trigger = i < args.starting_point if args.two_stage else False
Trigger(i, a) == IF a.two_stage THEN i < a.starting_point ELSE FALSE

\* The hyperparameters main passes: gradfilter_ma gets neither filter_type
\* nor warmup and runs with its defaults "mean" and True.
TrainHyperParams(k) ==
    IF k = "ma"
    THEN {h \in HyperParams(k) :
            h.lamb = PyNum(1) /\ h.filter_type = "mean" /\ h.warmup}
    ELSE IF k = "ema"
    THEN {h \in HyperParams(k) :
            h.lamb = PyNum(1) /\ h.alpha \in {PyRat(1, 2), PyRat(49, 50)}}
    ELSE IF k = "smoother"
    THEN {h \in HyperParams(k) : h.pp = PyNum(1) /\ h.beta = PyRat(1, 2)}
    ELSE IF k = "kalman"
    THEN {h \in HyperParams(k) :
            /\ h.lamb = PyNum(1) /\ h.process_noise = PyNum(1)
            /\ h.measurement_noise = PyNum(3)}
    ELSE {[lamb |-> PyNum(1)]}

\* Decoder(..., attn_freeze = True, first_block_freeze = True): the model
\* is built with some of its parameters frozen, never all of them.
FrozenSets == SUBSET NameSet \ {NameSet}

\* What loss.backward() after model.zero_grad() may leave on parameter p: a
\* frozen parameter gets no gradient; a trainable one gets the gradient of
\* the loss of the batch, or none when the loss does not depend on it, and
\* that is the same for every batch.  The gradient varies with the batch:
\* the parameter values do not determine it.
TrainGrads(p, n, first) ==
    IF ~p.requires_grad THEN {None}
    ELSE IF first THEN Tensors(n) \cup {None}
    ELSE IF p.grad = None THEN {None}
    ELSE Tensors(n)

\* The gradients a batch of train_data may leave on the model: each
\* parameter's on its own; backward() needs a loss that depends on some
\* trainable parameter.
TrainBatches(mod, first) ==
    {b \in [NameSet -> UNION {TrainGrads(mod[n], n, first) : n \in NameSet}] :
        /\ \A n \in NameSet : b[n] \in TrainGrads(mod[n], n, first)
        /\ \E n \in NameSet : b[n] # None}

\* LambdaLR(torch_optimizer, lambda update: 1 if update > 10 else update / 10),
\* in tenths: the factor on the learning rate at the optimizer step that
\* follows update scheduler steps.
lr_lambda(update) == IF update > 10 THEN 10 ELSE update

\* The values torch_optimizer.step() may leave in parameter p: a parameter
\* without a gradient is skipped, and with a learning rate of 0 the update
\* is 0.
Stepped(p, n, factor) ==
    IF p.grad = None \/ factor = 0 THEN {p.data}
    ELSE {[j \in 1..Numel(n) |-> Num(v)] : v \in {1, 3}}

\* data.shape[1] // 2: the columns of train_data and of valid_data.
Cols == 4

\* len(torch.split(data, args.batch_size, dim=1)): the batches of a split.
NumBatches(a) == (Cols + a.batch_size - 1) \div a.batch_size

\* int(args.budget) // steps_per_epoch: the epochs the loop runs.
Epochs(a) == Budget \div NumBatches(a)

\* len(param.grad.shape): "a" is a 1 x 2 weight matrix, "b" a vector.
Ndim(n) == IF n = "a" THEN 2 ELSE 1

\* low_rank_approximation(grad, rank) is defined in tools.py, outside the
\* sources: all that is known of its result is that it is a tensor.  The
\* results explored are the gradient itself and one other tensor.
low_rank_approximation(grad) == {grad, [j \in 1..Len(grad) |-> Num(7)]}

\* What the projection may leave of one parameter: a gradient with two
\* dimensions is replaced, any other is kept.
Projected(p, n, enabled) ==
    IF enabled /\ p.grad # None /\ Ndim(n) = 2
    THEN {[p EXCEPT !.grad = t] : t \in low_rank_approximation(p.grad)}
    ELSE {p}

\* if args.enable_lr_update: ... param.grad = low_rank_approximation(grad, rank)
Projections(mod, enabled) ==
    {f \in [NameSet -> UNION {Projected(mod[n], n, enabled) : n \in NameSet}] :
        \A n \in NameSet : f[n] \in Projected(mod[n], n, enabled)}

\* The command lines explored.
TrainArgs ==
    [two_stage : BOOLEAN, starting_point : 0..StartingPoint,
     enable_lr_update : BOOLEAN, batch_size : {(Cols + 1) \div 2, Cols}]

InitTrain ==
    /\ kind \in Filters
    /\ hp \in TrainHyperParams(kind)
    /\ args \in TrainArgs
    /\ \E frozen \in FrozenSets :
          m = [n \in NameSet |-> [requires_grad |-> n \notin frozen, grad |-> None,
                                   data |-> [j \in 1..Numel(n) |-> Num(1)]]]
    /\ grads = None
    /\ err = "none"
    /\ calls = 0
    /\ raw = m
    /\ prev = None
    /\ trig = FALSE
    /\ alltrig = TRUE
    /\ seen = [n \in NameSet |-> 0]
    /\ hist = [n \in NameSet |-> <<>>]
    /\ gain = [n \in NameSet |-> None]
    /\ pc = IF Epochs(args) > 0 THEN "forward" ELSE "done"
    /\ is_train = TRUE
    /\ epoch = 0
    /\ pos = 0
    /\ step = 0
    /\ nback = 0

\* The end of a batch: on to the next batch of dl, then from train_data to
\* valid_data, then to the next epoch; after the last epoch the loop is left
\* with its variables as they are.
NextBatch ==
    IF pos + 1 < NumBatches(args)
    THEN pos' = pos + 1 /\ pc' = "forward" /\ UNCHANGED <<is_train, epoch>>
    ELSE IF is_train
    THEN is_train' = FALSE /\ pos' = 0 /\ pc' = "forward" /\ UNCHANGED epoch
    ELSE IF epoch + 1 < Epochs(args)
    THEN is_train' = TRUE /\ pos' = 0 /\ pc' = "forward" /\ epoch' = epoch + 1
    ELSE pc' = "done" /\ UNCHANGED <<is_train, epoch, pos>>

\* A batch of train_data: forward pass, model.zero_grad(), loss.backward().
TrainBackward ==
    /\ pc = "forward" /\ backward_due(is_train)
    /\ \E batch \in TrainBatches(m, nback = 0) :
          /\ m' = [n \in NameSet |-> [m[n] EXCEPT !.grad = batch[n]]]
          /\ raw' = m'
    /\ nback' = nback + 1
    /\ pc' = "filter"
    /\ UNCHANGED <<kind, hp, grads, err, calls, prev, trig, alltrig,
                   seen, hist, gain,
                   args, is_train, epoch, pos, step>>

\* A batch of valid_data: forward pass only.
ValidForward ==
    /\ pc = "forward" /\ ~backward_due(is_train)
    /\ NextBatch
    /\ UNCHANGED <<kind, hp, m, grads, err, calls, raw, prev, trig, alltrig,
                   seen, hist,
                   gain, args, step, nback>>

\* grads = <filter>(model, grads=grads, ...) with result r, then the
\* low-rank projection of the gradients the filter left; a filter that
\* raises ends the run.
FilterAndProject(r, trigger, k) ==
    /\ \E mod \in (IF r.err = "none"
                   THEN Projections(r.m, args.enable_lr_update)
                   ELSE {r.m}) :
          Record(m, [r EXCEPT !.m = mod], trigger, k)
    /\ pc' = IF r.err = "none" THEN "step" ELSE "failed"

\* The trigger, the dispatch on args.filter and the low-rank projection of
\* the gradients the filter left.
TrainFilter ==
    /\ pc = "filter"
    /\ IF dispatch_error(kind) # "none"
       THEN /\ err' = dispatch_error(kind)
            /\ pc' = "failed"
            /\ UNCHANGED <<m, grads, calls, raw, prev, trig, alltrig,
                   seen, hist, gain,
                           kind, hp>>
       ELSE IF kind \in Kinds
       THEN FilterAndProject(Filter(kind, m, grads, hp, Trigger(step, args)),
                             Trigger(step, args),
                             IF kind = "kalman"
                             THEN gradfilter_kalman(m, grads, hp).K ELSE NoGain)
       ELSE /\ m' \in Projections(m, args.enable_lr_update)
            /\ pc' = "step"
            /\ UNCHANGED <<grads, err, calls, raw, prev, trig, alltrig,
                   seen, hist,
                           gain, kind, hp>>
    /\ UNCHANGED <<args, is_train, epoch, pos, step, nback>>

\* torch_optimizer.step(); scheduler.step(); i += 1, and on to the next
\* batch.
TrainStep ==
    /\ pc = "step"
    /\ \E data \in [NameSet -> UNION {Stepped(m[n], n, lr_lambda(step)) : n \in NameSet}] :
          /\ \A n \in NameSet : data[n] \in Stepped(m[n], n, lr_lambda(step))
          /\ m' = [n \in NameSet |-> [m[n] EXCEPT !.data = data[n]]]
    /\ step' = step + 1
    /\ NextBatch
    /\ UNCHANGED <<kind, hp, grads, err, calls, raw, prev, trig, alltrig,
                   seen, hist,
                   gain, args, nback>>

NextTrain == TrainBackward \/ ValidForward \/ TrainFilter \/ TrainStep

SpecTrain == InitTrain /\ [][NextTrain]_vars

\* ------------------------------------------------------------- properties
State == grads[1]

Passed == prev[1]

\* The last call returned (did not raise).
Returned == calls > 0 /\ err = "none"

\* The last k entries of s, oldest first.
LastN(s, k) == IF Len(s) <= k THEN s ELSE SubSeq(s, Len(s) - k + 1, Len(s))

RECURSIVE WindowSum(_)
WindowSum(items) ==
    IF Len(items) = 1 THEN items[1]
    ELSE TAdd(WindowSum(SubSeq(items, 1, Len(items) - 1)), items[Len(items)])

Aggregate(items, filter_type) ==
    IF filter_type = "mean" THEN TOver(WindowSum(items), PyNum(Len(items)))
    ELSE WindowSum(items)

\* 2^-20, eight units in the last place of a float32 significand.
Eps == <<1, 1, -20>>

RMax(x, y) == IF RLess(x, y) THEN y ELSE x

\* x and y are the same number up to rounding: they differ by at most Eps
\* times the larger of their magnitudes and 1.
Near(x, y) ==
    \/ x = y
    \/ RLeq(RAbs(RSub(x, y)), RMul(Eps, RMax(Num(1), RMax(RAbs(x), RAbs(y)))))

TNear(s, t) == Len(s) = Len(t) /\ \A i \in 1..Len(s) : Near(s[i], t[i])

\* C1: a gradfilter_ma call with trigger = true that returns leaves every
\* gradient as it received it and has appended that gradient to the
\* parameter's buffer, whatever warmup, window_size and the fill level are.
C1_TriggerLeavesGradient ==
    (kind = "ma" /\ Returned /\ trig) =>
        \A n \in NameSet : HasGrad(raw, n) =>
            /\ m[n].grad = raw[n].grad
            /\ n \in DOMAIN State
            /\ State[n].items # <<>>
            /\ State[n].items[Len(State[n].items)] = raw[n].grad

\* C2: no call fails on a missing state entry, and once a parameter has had
\* a gradient in some call the state holds an entry for it, for every filter.
C2_StateCreatedPerParameter ==
    /\ err # "KeyError"
    /\ Returned => \A n \in NameSet : seen[n] > 0 => n \in DOMAIN State

\* C3: with warmup = true and trigger = false, the k-th call in which a
\* parameter has a gradient leaves that gradient unchanged while k <
\* window_size and on every later call (k >= window_size) sets it to
\* gradient + aggregate * lamb, the aggregate taken over the last window_size
\* raw gradients.
C3_WarmupWindowFill ==
    (kind = "ma" /\ Returned /\ hp.warmup /\ ~trig) =>
        \A n \in NameSet : HasGrad(raw, n) =>
            m[n].grad =
                IF seen[n] < hp.window_size THEN raw[n].grad
                ELSE TAdd(raw[n].grad,
                          TScale(Aggregate(LastN(hist[n], hp.window_size),
                                           hp.filter_type), hp.lamb))

\* A parameter is past its window_size-th call and its gradient was modified.
C3_Witness ==
    /\ kind = "ma" /\ Returned /\ hp.warmup /\ ~trig
    /\ hp.window_size = 2 /\ hp.lamb = PyNum(1)
    /\ seen["a"] = 3
    /\ HasGrad(raw, "a")
    /\ m["a"].grad # raw["a"].grad

\* C4: after k calls in which a parameter had a gradient its buffer holds the
\* last min(k, window_size) raw gradients, oldest first, never more than
\* window_size of them; a call that modifies the gradient adds the aggregate
\* of that buffer, the call's own gradient included; and the sequence 1, 1, 1
\* with window_size 2, lamb 1, mean, warmup gives the outputs 1, 2, 2.
C4_BufferIsLastWindow ==
    (kind = "ma" /\ Returned) =>
        \A n \in DOMAIN State :
            LET items == State[n].items
                k     == seen[n]
                W     == hp.window_size
            IN  /\ Len(items) = (IF k < W THEN k ELSE W)
                /\ items = LastN(hist[n], W)
                /\ (HasGrad(raw, n) /\ m[n].grad # raw[n].grad) =>
                      /\ items[Len(items)] = raw[n].grad
                      /\ m[n].grad = TAdd(raw[n].grad,
                                          TScale(Aggregate(items, hp.filter_type),
                                                 hp.lamb))
                /\ (/\ n = "b" /\ W = 2 /\ hp.lamb = PyNum(1) /\ hp.warmup
                    /\ hp.filter_type = "mean" /\ ~trig /\ HasGrad(raw, n)
                    /\ \A j \in 1..k : hist[n][j] = <<Num(1)>>) =>
                      m[n].grad = (IF k = 1 THEN <<Num(1)>> ELSE <<Num(2)>>)

\* The third call of the scenario: the oldest 1 has been evicted, output 2.
C4_Witness ==
    /\ kind = "ma" /\ Returned /\ ~trig
    /\ hp = [window_size |-> 2, lamb |-> PyNum(1), filter_type |-> "mean",
             warmup |-> TRUE]
    /\ hist["b"] = <<<<Num(1)>>, <<Num(1)>>, <<Num(1)>>>>
    /\ HasGrad(raw, "b")
    /\ State["b"].items = <<<<Num(1)>>, <<Num(1)>>>>
    /\ m["b"].grad = <<Num(2)>>

\* C5: a gradfilter_ema call with trigger = true that receives a state returns
\* that state unchanged and leaves every gradient as it received it.
C5_TriggerFreezesEMA ==
    (kind = "ema" /\ calls > 0 /\ trig /\ prev # None) =>
        /\ err = "none"
        /\ grads = prev
        /\ \A n \in NameSet : m[n].grad = raw[n].grad

\* A triggered call on a parameter whose accumulator a decay step would move.
C5_Witness ==
    /\ kind = "ema" /\ calls > 0 /\ trig /\ prev # None
    /\ hp.alpha = PyRat(1, 2) /\ hp.lamb = PyNum(1)
    /\ HasGrad(raw, "b") /\ "b" \in DOMAIN Passed
    /\ Passed["b"] # raw["b"].grad

\* C6: an untriggered gradfilter_ema call on an existing state sets, element
\* by element, acc' = acc*alpha + g*(1 - alpha) from the raw gradient g and
\* then the gradient to (g + acc'*lamb)/(1 + lamb), with the new acc'.
C6_EmaUpdateOrder ==
    (kind = "ema" /\ Returned /\ ~trig /\ prev # None) =>
        \A n \in NameSet : HasGrad(raw, n) =>
            \A i \in 1..Numel(n) :
                LET g    == raw[n].grad[i]
                    acc  == Passed[n][i]
                    acc1 == RAdd(RMul(acc, Float32(hp.alpha)),
                                  RMul(g, Float32(PyOnePlus(PyNeg(hp.alpha)))))
                IN  /\ State[n][i] = acc1
                    /\ m[n].grad[i] = RDiv(RAdd(g, RMul(acc1, Float32(hp.lamb))),
                                           Float32(PyOnePlus(hp.lamb)))

\* An untriggered call in which old and new accumulator differ.
C6_Witness ==
    /\ kind = "ema" /\ Returned /\ ~trig /\ prev # None
    /\ hp.alpha = PyRat(1, 2) /\ hp.lamb = PyNum(1)
    /\ HasGrad(raw, "a")
    /\ State["a"] # Passed["a"]
    /\ m["a"].grad # raw["a"].grad

\* C7 as stated: after the gradfilter_ema call that creates the state, the
\* accumulator of every parameter that had a gradient equals that raw
\* gradient exactly, for every alpha and lamb and for either trigger.
C7_EmaSeed ==
    (kind = "ema" /\ calls > 0 /\ prev = None) =>
        /\ err = "none"
        /\ \A n \in NameSet : HasGrad(raw, n) =>
              n \in DOMAIN State /\ State[n] = raw[n].grad

\* What the creating call leaves instead: the raw gradient g when it is
\* triggered; untriggered, the decay runs on the accumulator it has just
\* created and leaves the float32 value of g*alpha + g*(1 - alpha), which is
\* g only up to rounding.
EmaSeedUpToRounding ==
    (kind = "ema" /\ calls > 0 /\ prev = None) =>
        /\ err = "none"
        /\ \A n \in NameSet : HasGrad(raw, n) =>
              /\ n \in DOMAIN State
              /\ trig => State[n] = raw[n].grad
              /\ ~trig => /\ State[n] = ema_acc(raw[n].grad, raw[n].grad, hp.alpha)
                          /\ TNear(State[n], raw[n].grad)

\* The (x, P) a gradfilter_kalman call starts from for parameter n: the entry
\* it received, or the one it creates when it received no state.
Prior(n) ==
    IF prev = None
    THEN [x |-> [i \in 1..Numel(n) |-> Num(0)],
          P |-> [i \in 1..Numel(n) |-> Float32(hp.measurement_noise)]]
    ELSE Passed[n]

\* C8: every gradfilter_kalman call maps each element's (x, P, grad) by
\* P_pred = P + Q; K = P_pred/(P_pred + R); x' = x + K*(grad - x);
\* P' = (1 - K)*P_pred; grad' = grad + x'*lamb, from that element's values only.
C8_KalmanRecursion ==
    (kind = "kalman" /\ Returned) =>
        \A n \in NameSet : HasGrad(raw, n) =>
            \A i \in 1..Numel(n) :
                LET g      == raw[n].grad[i]
                    x0     == Prior(n).x[i]
                    P_pred == RAdd(Prior(n).P[i], Float32(hp.process_noise))
                    K      == RDiv(P_pred, RAdd(P_pred, Float32(hp.measurement_noise)))
                    x1     == RAdd(x0, RMul(K, RSub(g, x0)))
                    P1     == RMul(RSub(Num(1), K), P_pred)
                IN  /\ gain[n][i] = K
                    /\ State[n].x[i] = x1
                    /\ State[n].P[i] = P1
                    /\ m[n].grad[i] = RAdd(g, RMul(x1, Float32(hp.lamb)))

\* A second call on a two-element parameter whose elements differ.
C8_Witness ==
    /\ kind = "kalman" /\ Returned /\ prev # None
    /\ hp = [process_noise |-> PyNum(1), measurement_noise |-> PyNum(3), lamb |-> PyNum(1)]
    /\ HasGrad(raw, "a")
    /\ State["a"].x[1] # State["a"].x[2]
    /\ State["a"] # Passed["a"]

\* Every gradient parameter n has had so far is the same tensor.
ConstantFeed(n) == \A j \in 1..Len(hist[n]) : hist[n][j] = hist[n][1]

\* P lies above the positive root P* of P*^2 + Q*P* - Q*R = 0.
AboveFixedPoint(P, Q, R) ==
    RLess(Num(0), P) /\ RLess(RMul(Q, R), RAdd(RMul(P, P), RMul(Q, P)))

AtFixedPoint(P, Q, R) == Near(RAdd(RMul(P, P), RMul(Q, P)), RMul(Q, R))

RECURSIVE UnitNoiseGain(_, _)
UnitNoiseGain(k, P) ==
    LET K == RDiv(P, RAdd(P, Num(1)))
    IN  IF k <= 1 THEN K ELSE UnitNoiseGain(k - 1, RMul(RSub(Num(1), K), P))

\* C10 as stated: with Q = 0 a larger R gives a smaller gain on every call
\* (K is driven toward 0), so the gain with R > 1 is below the gain the same
\* call has with R = 1.
C10_LargerNoiseLowersGain ==
    (/\ kind = "kalman" /\ Returned
     /\ hp.process_noise = PyNum(0) /\ RLess(Num(1), Float32(hp.measurement_noise))) =>
        \A n \in NameSet : HasGrad(raw, n) =>
            \A i \in 1..Numel(n) :
                RLess(gain[n][i], UnitNoiseGain(seen[n], Num(1)))

\* C10 amended: with Q = 0 and R > 0, from the state the filter creates, the
\* gain of a parameter's k-th call is 1/(k+1) up to rounding whatever R is
\* (exactly 1/2 on the first call), so it is the gain the call has with
\* R = 1 up to rounding; x moves by (grad - x)/(k+1) and the gradient
\* changes by x'*lamb, both up to rounding.
C10_GainIgnoresNoise ==
    (/\ kind = "kalman" /\ Returned
     /\ hp.process_noise = PyNum(0) /\ RLess(Num(0), Float32(hp.measurement_noise))) =>
        \A n \in NameSet : HasGrad(raw, n) =>
            \A i \in 1..Numel(n) :
                LET K == gain[n][i]
                    g == raw[n].grad[i]
                IN  /\ Near(K, Rat(1, seen[n] + 1))
                    /\ seen[n] = 1 => K = Rat(1, 2)
                    /\ Near(K, UnitNoiseGain(seen[n], Num(1)))
                    /\ Near(RSub(State[n].x[i], Prior(n).x[i]),
                            RDiv(RSub(g, Prior(n).x[i]), Num(seen[n] + 1)))
                    /\ Near(RSub(m[n].grad[i], g), RMul(State[n].x[i], Float32(hp.lamb)))

\* A second call with Q = 0 and the largest R: the gain is 1/3 up to
\* rounding, x has moved and the gradient was changed.
C10_Witness ==
    /\ kind = "kalman" /\ Returned
    /\ hp = [process_noise |-> PyNum(0), measurement_noise |-> PyNum(3), lamb |-> PyNum(1)]
    /\ HasGrad(raw, "b") /\ seen["b"] = 2
    /\ Near(gain["b"][1], Rat(1, 3)) /\ ~Near(gain["b"][1], Rat(1, 2))
    /\ State["b"].x # Passed["b"].x
    /\ m["b"].grad # raw["b"].grad

\* C11 as stated: with lamb = 0 (pp = 0 for smoother) every call of every
\* filter leaves every gradient as it received it, whatever the state
\* supplied, the other hyperparameters and the trigger are.
C11_ZeroGainIdentity ==
    (calls > 0 /\ Gain = PyNum(0)) =>
        \A n \in NameSet : m[n].grad = raw[n].grad

\* gradfilter_kalman with both noises 0: the gain is 0/0.
ZeroNoise ==
    kind = "kalman" /\ hp.process_noise = PyNum(0) /\ hp.measurement_noise = PyNum(0)

\* Every number of the entry the last call received for n is finite (a call
\* that creates the state starts from finite numbers; smoother reads none).
Sound(n) ==
    \/ prev = None
    \/ n \notin DOMAIN Passed
    \/ kind = "smoother"
    \/ /\ kind = "ma"
       /\ \A k \in 1..Len(Passed[n].items) :
             \A i \in 1..Numel(n) : IsFinite(Passed[n].items[k][i])
    \/ /\ kind = "ema"
       /\ \A i \in 1..Numel(n) : IsFinite(Passed[n][i])
    \/ /\ kind = "kalman"
       /\ \A i \in 1..Numel(n) : IsFinite(Passed[n].x[i]) /\ IsFinite(Passed[n].P[i])

\* The last gradfilter_kalman call divided by zero in K = P_pred / S for
\* element i of n: S = (P + process_noise) + measurement_noise is 0.
DividesByZero(n, i) ==
    /\ kind = "kalman"
    /\ HasGrad(raw, n)
    /\ prev # None => n \in DOMAIN Passed
    /\ IsZero(RAdd(RAdd(Prior(n).P[i], Float32(hp.process_noise)),
                   Float32(hp.measurement_noise)))

\* C11 amended: with gain 0 a call leaves every element of every gradient as
\* it received it or makes it nan, whatever the state supplied, the other
\* hyperparameters and the trigger are.  It leaves the element as it
\* received it when the state entry it was passed holds finite numbers,
\* unless gradfilter_kalman divides by zero for it; where gradfilter_kalman
\* divides by zero and returns, the element is nan.
C11_ZeroGainIdentityUnlessNaN ==
    (calls > 0 /\ Gain = PyNum(0)) =>
        \A n \in NameSet :
            /\ raw[n].grad = None => m[n].grad = None
            /\ raw[n].grad # None =>
                  \A i \in 1..Numel(n) :
                      /\ m[n].grad[i] = raw[n].grad[i] \/ IsNaN(m[n].grad[i])
                      /\ (Sound(n) /\ ~DividesByZero(n, i)) =>
                            m[n].grad[i] = raw[n].grad[i]
                      /\ (DividesByZero(n, i) /\ err = "none") =>
                            IsNaN(m[n].grad[i])

\* The first gradfilter_kalman call with lamb = 0 on a supplied state of
\* finite numbers: the estimate x moved and is not zero, the gradient is as
\* the call received it.
C11_Witness ==
    /\ kind = "kalman" /\ Returned /\ calls = 1 /\ prev # None
    /\ hp = [process_noise |-> PyNum(0), measurement_noise |-> PyNum(1), lamb |-> PyNum(0)]
    /\ HasGrad(raw, "b") /\ Sound("b")
    /\ Passed["b"].P = <<Num(1)>>
    /\ State["b"].x # Passed["b"].x
    /\ State["b"].x # <<Num(0)>>
    /\ m["b"].grad = raw["b"].grad

\* A supplied state with an infinite number makes the gradient nan at gain 0.
SuppliedInfinityMakesNaN ==
    /\ calls = 1 /\ prev # None /\ Gain = PyNum(0) /\ Returned
    /\ ~Sound("b") /\ HasGrad(raw, "b")
    /\ IsNaN(m["b"].grad[1])

\* The last gradfilter_ma call returned and modified the gradient of n.
Modified(n) ==
    /\ kind = "ma" /\ Returned /\ HasGrad(raw, n)
    /\ ~hp.warmup \/ (seen[n] >= hp.window_size /\ ~trig)

\* C12 as stated: on one buffer the aggregate of filter_type 'sum' is the
\* aggregate of 'mean' times the buffer length, so for the same input
\* gradient the 'sum' output is the 'mean' output plus lamb * (len - 1) * mean.
C12_SumIsMeanTimesLength ==
    \A n \in NameSet : Modified(n) =>
        LET items == State[n].items
            len   == Num(Len(items))
            mean  == ma_avg(items, "mean")
            sum   == ma_avg(items, "sum")
            extra == TScale(TTimes(mean, RSub(len, Num(1))), hp.lamb)
        IN  /\ sum = TTimes(mean, len)
            /\ hp.filter_type = "sum" =>
                  m[n].grad = TAdd(ma_apply(raw[n].grad, mean, hp.lamb), extra)
            /\ hp.filter_type = "mean" =>
                  TAdd(m[n].grad, extra) = ma_apply(raw[n].grad, sum, hp.lamb)

\* C12 amended: on one buffer the aggregate of filter_type 'sum' is the
\* aggregate of 'mean' times the buffer length up to rounding; for the same
\* input gradient the 'sum' output is the 'mean' output plus
\* lamb * (len - 1) * mean up to rounding.
C12_SumIsMeanTimesLengthUpToRounding ==
    \A n \in NameSet : Modified(n) =>
        LET items == State[n].items
            len   == Num(Len(items))
            mean  == ma_avg(items, "mean")
            sum   == ma_avg(items, "sum")
            extra == TScale(TTimes(mean, RSub(len, Num(1))), hp.lamb)
        IN  /\ TNear(sum, TTimes(mean, len))
            /\ hp.filter_type = "sum" =>
                  TNear(m[n].grad, TAdd(ma_apply(raw[n].grad, mean, hp.lamb), extra))
            /\ hp.filter_type = "mean" =>
                  TNear(TAdd(m[n].grad, extra), ma_apply(raw[n].grad, sum, hp.lamb))

\* A 'sum' call with lamb = 4 over a full window of 11 gradients, nine of 1
\* and two of 2: the mean is the float32 nearest 13/11, and 11 times it is
\* not 13.
C12_Witness ==
    /\ Modified("b") /\ hp.filter_type = "sum" /\ hp.lamb = PyNum(4)
    /\ Len(State["b"].items) = 11
    /\ ma_avg(State["b"].items, "sum") = <<Num(13)>>
    /\ TTimes(ma_avg(State["b"].items, "mean"), Num(11)) # <<Num(13)>>
    /\ m["b"].grad # ma_apply(raw["b"].grad, ma_avg(State["b"].items, "mean"), hp.lamb)

\* What the update rule of the run's filter makes of the entry Passed[n] when
\* the call processes parameter n.
Updated(n) ==
    IF kind = "ma"
    THEN [maxlen |-> Passed[n].maxlen,
          items  |-> LastN(Append(Passed[n].items, raw[n].grad), Passed[n].maxlen)]
    ELSE IF kind = "ema"
    THEN [i \in 1..Numel(n) |->
            RAdd(RMul(Passed[n][i], Float32(hp.alpha)),
                 RMul(raw[n].grad[i], Float32(PyOnePlus(PyNeg(hp.alpha)))))]
    ELSE IF kind = "kalman"
    THEN LET Pp(i) == RAdd(Passed[n].P[i], Float32(hp.process_noise))
             K(i)  == RDiv(Pp(i), RAdd(Pp(i), Float32(hp.measurement_noise)))
         IN  [x |-> [i \in 1..Numel(n) |->
                       RAdd(Passed[n].x[i],
                            RMul(K(i), RSub(raw[n].grad[i], Passed[n].x[i])))],
              P |-> [i \in 1..Numel(n) |-> RMul(RSub(Num(1), K(i)), Pp(i))]]
    ELSE Passed[n]

\* The call's loop body updates the state entry of a parameter it reaches.
Updates(n) ==
    /\ HasGrad(raw, n)
    /\ kind # "smoother"
    /\ ~(kind = "ema" /\ trig)

\* C14: a call that receives no state creates the entries; a call that
\* receives a state keeps its key set, and each entry is either left as
\* received or advanced by the filter's update rule (append with FIFO
\* eviction, the decay step, the Kalman step), never re-created.
C14_InitializeOnce ==
    calls > 0 =>
        IF prev = None
        THEN Returned => DOMAIN State = {n \in NameSet : HasGrad(raw, n)}
        ELSE /\ DOMAIN State = DOMAIN Passed
             /\ \A n \in DOMAIN Passed :
                   /\ State[n] = Passed[n] \/ (Updates(n) /\ State[n] = Updated(n))
                   /\ Returned => State[n] = (IF Updates(n) THEN Updated(n) ELSE Passed[n])

\* A third gradfilter_ma call: the buffer it received was full, its oldest
\* item was evicted and the item before the new one was kept.
C14_Witness ==
    /\ kind = "ma" /\ Returned /\ prev # None
    /\ hp.window_size = 2
    /\ seen["a"] = 3 /\ HasGrad(raw, "a")
    /\ Passed["a"].items[1] # Passed["a"].items[2]
    /\ State["a"].items[1] = Passed["a"].items[2]
    /\ "b" \in DOMAIN State /\ ~HasGrad(raw, "b")
    /\ State["b"] = Passed["b"] /\ State["b"].items # <<>>

\* The last call received parameter n frozen or without a gradient.
Skipped(n) == ~raw[n].requires_grad \/ raw[n].grad = None

\* C15: a call of any filter leaves a parameter that is not trainable or has
\* no gradient alone: its gradient is as received (absent stays absent), its
\* state entry is as received and none is created for it; the parameters that
\* do have a gradient are processed in the same call as usual.
C15_SkippedParameter ==
    calls > 0 =>
        \A n \in NameSet : Skipped(n) =>
            /\ m[n].grad = raw[n].grad
            /\ IF prev = None
               THEN Returned => n \notin DOMAIN State
               ELSE /\ n \in DOMAIN State <=> n \in DOMAIN Passed
                    /\ n \in DOMAIN Passed => State[n] = Passed[n]
            /\ \A o \in NameSet \ {n} :
                  (Returned /\ ~Skipped(o)) =>
                      IF prev = None THEN o \in DOMAIN State
                      ELSE Updates(o) => State[o] = Updated(o)

\* A gradfilter_kalman call that finds "b" frozen with a stale gradient and
\* an entry from an earlier call, while "a" is filtered.
C15_Witness ==
    /\ kind = "kalman" /\ Returned /\ prev # None
    /\ ~raw["b"].requires_grad /\ raw["b"].grad # None
    /\ "b" \in DOMAIN Passed /\ State["b"] = Passed["b"]
    /\ m["b"].grad = raw["b"].grad
    /\ ~Skipped("a")
    /\ State["a"] # Passed["a"]
    /\ m["a"].grad # raw["a"].grad

\* C17: on every smoother call, whatever beta, pp and the earlier calls, the
\* shadow z seeded from the parameter's current value is left equal to that
\* value by the tracking step, the push-back term is zero, every gradient
\* leaves the call as it entered it, and a state that was passed in is
\* returned with its entries unchanged.
C17_SmootherIsIdentity ==
    (kind = "smoother" /\ calls > 0) =>
        /\ err = "none"
        /\ \A n \in NameSet :
              /\ m[n].grad = raw[n].grad
              /\ HasGrad(raw, n) =>
                    LET z == smoother_z(raw[n].data, raw[n].data, hp.beta)
                    IN  /\ z = raw[n].data
                        /\ TScale(TSub(raw[n].data, z), hp.pp) = zeros_like(z)
        /\ prev # None => State = Passed

\* A second smoother call with beta = 1/2 and pp = 1 on a parameter whose
\* value has moved away from its initial value and whose state entry exists.
C17_Witness ==
    /\ kind = "smoother" /\ calls = 2 /\ err = "none"
    /\ hp.beta = PyRat(1, 2) /\ hp.pp = PyNum(1)
    /\ HasGrad(raw, "a")
    /\ raw["a"].data = <<Num(3), Num(3)>>
    /\ prev # None /\ "a" \in DOMAIN Passed

\* C19 (as stated): in every gradfilter_kalman call, for all non-negative
\* process_noise and measurement_noise, the gain K of each processed element
\* lies in [0,1] and every stored variance P is non-negative.
C19_GainInUnitInterval ==
    kind = "kalman" =>
        /\ \A n \in NameSet : gain[n] # None =>
              \A i \in 1..Numel(n) :
                  RLeq(Num(0), gain[n][i]) /\ RLeq(gain[n][i], Num(1))
        /\ grads # None =>
              \A n \in DOMAIN State : \A i \in 1..Numel(n) :
                  RLeq(Num(0), State[n].P[i])

\* C19 (amended): the same when process_noise and measurement_noise are not
\* both zero; when both are zero, K = 0/0 is nan and every stored P is nan.
C19_GainInUnitIntervalUnlessZeroNoise ==
    kind = "kalman" =>
        /\ \A n \in NameSet : gain[n] # None =>
              \A i \in 1..Numel(n) :
                  IF ZeroNoise THEN IsNaN(gain[n][i])
                  ELSE RLeq(Num(0), gain[n][i]) /\ RLeq(gain[n][i], Num(1))
        /\ grads # None =>
              \A n \in DOMAIN State : \A i \in 1..Numel(n) :
                  IF ZeroNoise THEN IsNaN(State[n].P[i])
                  ELSE RLeq(Num(0), State[n].P[i])

\* A second call with process_noise = 1 and measurement_noise = 2 whose gain
\* is strictly inside the interval.
C19_Witness ==
    /\ kind = "kalman" /\ calls = 2 /\ err = "none"
    /\ hp.process_noise = PyNum(1) /\ hp.measurement_noise = PyNum(3)
    /\ gain["a"] # None
    /\ RLess(Num(0), gain["a"][1]) /\ RLess(gain["a"][1], Num(1))
    /\ RLess(Num(0), State["a"].P[1])

\* C20: in gradfilter_ema, with alpha = 0 an untriggered call that returns
\* leaves the accumulator of every parameter with a gradient equal to that
\* call's raw gradient; with alpha = 1 every accumulator equals its seed, the
\* raw gradient the parameter had in the first call, after any number of
\* calls.
C20_EmaAlphaExtremes ==
    (kind = "ema" /\ calls > 0) =>
        /\ (hp.alpha = PyNum(0) /\ Returned /\ ~trig) =>
              \A n \in NameSet : HasGrad(raw, n) =>
                  n \in DOMAIN State /\ State[n] = raw[n].grad
        /\ (hp.alpha = PyNum(1) /\ grads # None) =>
              \A n \in DOMAIN State :
                  hist[n] # <<>> /\ State[n] = hist[n][1]

\* alpha = 1: a second untriggered call whose raw gradient differs from the
\* seed.
C20_Witness ==
    /\ kind = "ema" /\ calls = 2 /\ Returned /\ ~trig
    /\ hp.alpha = PyNum(1) /\ hp.lamb = PyNum(1)
    /\ HasGrad(raw, "a") /\ Len(hist["a"]) = 2
    /\ hist["a"][2] # hist["a"][1]

\* alpha = 0: a second untriggered call whose raw gradient differs from the
\* accumulator it received.
C20_WitnessAlphaZero ==
    /\ kind = "ema" /\ calls = 2 /\ Returned /\ ~trig
    /\ hp.alpha = PyNum(0) /\ hp.lamb = PyNum(1)
    /\ HasGrad(raw, "a") /\ prev # None
    /\ Passed["a"] # raw["a"].grad

\* The modules that differ from the one the last call received only in the
\* gradients of the parameters other than n.
Variants(n) ==
    {Backward(b, [k \in NameSet |-> raw[k].data]) :
        b \in {c \in Batches :
                  c[n] = [requires_grad |-> raw[n].requires_grad,
                          grad |-> raw[n].grad]}}

\* The state the loop holds after a call that left r.
Kept(r) == IF r.err = "none" \/ prev # None THEN <<r.grads>> ELSE None

\* The entry of n in a state, None when there is none.
Entry(st, n) ==
    IF st = None THEN None
    ELSE IF n \in DOMAIN st[1] THEN <<st[1][n]>> ELSE None

\* C18: for every filter, the gradient and the state entry a call leaves for
\* a parameter are the same in a run that differs from this one only in the
\* gradients the other parameters have in that call.
C18_NoInterference ==
    calls > 0 =>
        \A n \in NameSet : \A mod2 \in Variants(n) :
            LET r2 == Filter(kind, mod2, prev, hp, trig)
            IN  /\ r2.m[n].grad = m[n].grad
                /\ Entry(Kept(r2), n) = Entry(grads, n)

\* The same for pairs of runs in which the call returns: there the other
\* parameters' gradients have no influence.
NoInterferenceWhenReturning ==
    Returned =>
        \A n \in NameSet : \A mod2 \in Variants(n) :
            LET r2 == Filter(kind, mod2, prev, hp, trig)
            IN  r2.err = "none" =>
                    /\ r2.m[n].grad = m[n].grad
                    /\ Entry(Kept(r2), n) = Entry(grads, n)

\* C13: with a filter kind that is not none / ma / ema / smoother / kalman
\* the loop fails with ValueError at the dispatch of its first training
\* batch: the state is still None, every gradient is as the backward pass
\* left it, no optimizer step is or will be taken, and no statement runs
\* after the error.
C13_InvalidFilterFailsFast ==
    /\ [](kind \notin Kinds \cup {"none"} =>
            /\ grads = None /\ calls = 0 /\ step = 0
            /\ m = raw
            /\ pc \in {"forward", "filter", "failed"}
            /\ pc = "forward" => nback = 0
            /\ pc = "failed" <=> err = "ValueError"
            /\ pc = "failed" => nback = 1 /\ is_train /\ epoch = 0)
    /\ [][pc # "failed"]_vars

\* The failed run: the first backward pass has left gradients, the dispatch
\* has raised.
C13_Witness ==
    /\ kind = "fft" /\ pc = "failed" /\ err = "ValueError"
    /\ nback = 1 /\ step = 0 /\ grads = None
    /\ \A n \in NameSet : m[n].grad # None

\* What a step of the loop with one of the four filters does: a filter call
\* is made on a batch of train_data right after its backward pass, on the
\* gradients that pass left and the state the loop holds; only a filter call
\* changes that state; the optimizer step follows the call and finds the
\* gradients the call produced, those the low-rank projection replaced
\* between the two excepted.
FilterBetweenBackwardAndStep ==
    /\ calls' # calls =>
          /\ pc = "filter" /\ is_train /\ nback = calls + 1
          /\ raw' = m /\ raw = m
          /\ prev' = grads
          /\ trig' = Trigger(step, args)
          /\ calls' = calls + 1
          /\ pc' = "step" =>
                grads' = <<Filter(kind, m, grads, hp, trig').grads>>
    /\ calls' = calls => grads' = grads
    /\ step' # step =>
          /\ pc = "step" /\ step' = step + 1 /\ calls = step'
          /\ \A n \in NameSet : m'[n].grad = m[n].grad
    /\ pc = "step" =>
          \E mod \in Projections(Filter(kind, raw, prev, hp, trig).m,
                                 args.enable_lr_update) :
              \A n \in NameSet : m[n].grad = mod[n].grad

\* C16: with one of the four filters selected, the filter has been called
\* once for every optimizer step taken and once more exactly when the loop
\* stands between the call and the optimizer step; every call is made on a
\* batch of train_data, after that batch's backward pass and before its
\* optimizer step, never on a batch of valid_data; and each call receives
\* the state the call before it returned.
C16_FilterOncePerStep ==
    /\ [](kind \in Kinds =>
            /\ calls = step + (IF pc \in {"step", "failed"} THEN 1 ELSE 0)
            /\ nback = step + (IF pc \in {"filter", "step", "failed"} THEN 1 ELSE 0)
            /\ pc \in {"filter", "step"} => is_train)
    /\ [][(kind \in Kinds) => FilterBetweenBackwardAndStep]_vars

\* The second optimizer step has been taken, a batch of valid_data after the
\* first; its filter call received the state of the first.
C16_Witness ==
    /\ kind \in Kinds /\ calls = 2 /\ step = 2 /\ epoch = 1 /\ ~is_train
    /\ prev # None /\ grads # None
    /\ pc = "forward"

\* C21: with warmup = true, while every call so far has had trigger = true
\* each call leaves the gradients alone and still appends them to the
\* buffers; after at least window_size such calls from an absent state, the
\* first call with trigger = false modifies the gradient at once:
\* gradient + aggregate * lamb, the aggregate taken over the last
\* window_size raw gradients, of which all but the call's own were recorded
\* by triggered calls.
C21_BookkeepingWhileTriggered ==
    (kind = "ma" /\ Returned /\ hp.warmup /\ alltrig) =>
        \A n \in NameSet : (HasGrad(raw, n) /\ seen[n] = calls) =>
            LET W == hp.window_size IN
            /\ n \in DOMAIN State
            /\ State[n].items = LastN(hist[n], W)
            /\ trig => m[n].grad = raw[n].grad
            /\ (~trig /\ calls - 1 >= W) =>
                  m[n].grad =
                      TAdd(raw[n].grad,
                           TScale(Aggregate(LastN(hist[n], W), hp.filter_type),
                                  hp.lamb))

\* Two triggered calls with window_size 2, then the first untriggered call:
\* the gradient is modified on that call.
C21_Witness ==
    /\ kind = "ma" /\ Returned /\ hp.warmup /\ alltrig /\ ~trig
    /\ hp.window_size = 2 /\ hp.lamb = PyNum(1) /\ hp.filter_type = "mean"
    /\ calls = 3 /\ seen["a"] = 3 /\ HasGrad(raw, "a")
    /\ hist["a"][2] # hist["a"][3]
    /\ m["a"].grad # raw["a"].grad

\* The parameters the last call had to process, in the loop's order.
Processed == {j \in 1..Len(Names) : HasGrad(raw, Names[j])}

\* An aggregate is due for n in the last call: warmup false, or the buffer
\* full after this call's append with trigger false.
Due(n) == ~hp.warmup \/ (~trig /\ seen[n] >= hp.window_size)

\* The last call received a state without an entry for n.
Missing(n) == prev # None /\ n \notin DOMAIN Passed

\* The dictionary the last call was working on when it ended: the one it
\* received, or the one it created.
Local == gradfilter_ma(raw, prev, hp, trig).grads

\* C22: gradfilter_ma with a filter_type other than 'mean' and 'sum' raises
\* ValueError only on a call in which an aggregate is due for a processed
\* parameter, and every call in which none is due returns normally.  At the
\* raise every gradient is as the call received it, and the gradient of the
\* first processed parameter is already the last item of its buffer.
C22_LazyFilterTypeError ==
    (kind = "ma" /\ calls > 0 /\ hp.filter_type \notin {"mean", "sum"}) =>
        /\ err = "ValueError" => \E j \in Processed : Due(Names[j])
        /\ (\A j \in Processed : ~Due(Names[j])) => err = "none"
        /\ err = "ValueError" =>
              /\ m = raw
              /\ \A j \in Processed :
                    (\A k \in Processed : j <= k) =>
                        LET items == Local[Names[j]].items
                        IN  /\ items # <<>>
                            /\ items[Len(items)] = raw[Names[j]].grad

\* The same as long as every processed parameter has an entry in the state
\* the call received: ValueError is raised at the first processed parameter
\* for which an aggregate is due and on no other call, and a call in which no
\* aggregate is due returns.  A processed parameter without an entry raises
\* KeyError instead, due or not.
LazyFilterTypeErrorWithEntries ==
    (kind = "ma" /\ calls > 0 /\ hp.filter_type \notin {"mean", "sum"}) =>
        /\ err = "ValueError" <=>
              \E j \in Processed :
                  /\ Due(Names[j]) /\ ~Missing(Names[j])
                  /\ \A k \in Processed :
                        k < j => ~Due(Names[k]) /\ ~Missing(Names[k])
        /\ (\A j \in Processed : ~Due(Names[j]) /\ ~Missing(Names[j])) =>
              err = "none"
        /\ err = "KeyError" <=>
              \E j \in Processed :
                  /\ Missing(Names[j])
                  /\ \A k \in Processed :
                        k < j => ~Due(Names[k]) /\ ~Missing(Names[k])
        /\ err = "ValueError" =>
              /\ m = raw
              /\ \A j \in Processed :
                    (\A k \in Processed : j <= k) =>
                        LET items == Local[Names[j]].items
                        IN  /\ items # <<>>
                            /\ items[Len(items)] = raw[Names[j]].grad
              /\ prev # None => State = Local

\* C23: in the training loop, the trigger of the filter call of step i (the
\* call number i + 1) is true exactly when two_stage is set and
\* i < starting_point; every call before a triggered call was triggered, and
\* after a call with trigger false no call has trigger true.
C23_TriggerIsInitialPhase ==
    /\ []((kind \in {"ma", "ema"} /\ calls > 0) =>
            /\ trig <=> (args.two_stage /\ calls - 1 < args.starting_point)
            /\ ~args.two_stage => ~trig
            /\ trig => alltrig)
    /\ [][(kind \in {"ma", "ema"} /\ calls > 0 /\ ~trig) => ~trig']_vars

\* A two-stage run with starting_point 1 after its second filter call: the
\* first call was triggered, the second was not.
C23_Witness ==
    /\ kind \in {"ma", "ema"}
    /\ args.two_stage /\ args.starting_point = 1
    /\ calls = 2 /\ step = 2 /\ ~trig /\ alltrig

\* The sum of element i over a sequence of gradients.
RECURSIVE ElementSum(_, _)
ElementSum(h, i) ==
    IF h = <<>> THEN Num(0)
    ELSE RAdd(ElementSum(SubSeq(h, 1, Len(h) - 1), i), h[Len(h)][i])

\* The gain and the variance of the k-th update of one element with Q = 0
\* and measurement noise R, from the state the filter creates.
RECURSIVE ZeroNoiseUpdate(_, _)
ZeroNoiseUpdate(k, R) ==
    LET P == IF k <= 1 THEN R ELSE ZeroNoiseUpdate(k - 1, R).P
        K == RDiv(RAdd(P, Num(0)), RAdd(RAdd(P, Num(0)), R))
    IN  [K |-> K, P |-> RMul(RSub(Num(1), K), RAdd(P, Num(0)))]

\* C24 amended: with process_noise 0 and measurement_noise R > 0, from the
\* state the filter creates, the gain and the variance of a parameter's k-th
\* call are fixed by k and R whatever the gradients g_1, ..., g_k are; up to
\* rounding the gain is 1/(k+1), P is R/(k+1) and x is
\* (g_1 + ... + g_k)/(k+1), and on the first call they are exactly 1/2, R/2
\* and g_1/2.
C24_ClosedFormUpToRounding ==
    (/\ kind = "kalman" /\ Returned
     /\ hp.process_noise = PyNum(0) /\ RLess(Num(0), Float32(hp.measurement_noise))) =>
        \A n \in NameSet : HasGrad(raw, n) =>
            \A i \in 1..Numel(n) :
                LET k == seen[n]
                    u == ZeroNoiseUpdate(k, Float32(hp.measurement_noise))
                    K == Rat(1, k + 1)
                    P == RDiv(Float32(hp.measurement_noise), Num(k + 1))
                    x == RDiv(ElementSum(hist[n], i), Num(k + 1))
                IN  /\ Len(hist[n]) = k
                    /\ gain[n][i] = u.K /\ State[n].P[i] = u.P
                    /\ Near(gain[n][i], K)
                    /\ Near(State[n].P[i], P)
                    /\ Near(State[n].x[i], x)
                    /\ k = 1 => /\ gain[n][i] = K
                                /\ State[n].P[i] = P
                                /\ State[n].x[i] = x

\* C24 as stated: with process_noise 0 and measurement_noise R > 0, from the
\* state the filter creates, a parameter's k-th call has gain 1/(k+1), leaves
\* P = R/(k+1) and leaves x = (g_1 + ... + g_k)/(k+1), whatever the
\* gradients g_1, ..., g_k are.
C24_ZeroProcessNoiseClosedForm ==
    (/\ kind = "kalman" /\ Returned
     /\ hp.process_noise = PyNum(0) /\ RLess(Num(0), Float32(hp.measurement_noise))) =>
        \A n \in NameSet : HasGrad(raw, n) =>
            \A i \in 1..Numel(n) :
                LET k == seen[n]
                IN  /\ Len(hist[n]) = k
                    /\ gain[n][i] = Rat(1, k + 1)
                    /\ State[n].P[i] = RDiv(Float32(hp.measurement_noise), Num(k + 1))
                    /\ State[n].x[i] = RDiv(ElementSum(hist[n], i), Num(k + 1))

\* The third call with Q = 0 and R = 3 on gradients that changed between
\* the calls: K is 1/4, P is 3/4 and x is 5/4 up to rounding, and not all
\* three exactly.
C24_Witness ==
    /\ kind = "kalman" /\ Returned
    /\ hp.process_noise = PyNum(0) /\ hp.measurement_noise = PyNum(3)
    /\ HasGrad(raw, "b") /\ seen["b"] = 3
    /\ hist["b"] = <<<<Num(1)>>, <<Num(2)>>, <<Num(2)>>>>
    /\ Near(gain["b"][1], Rat(1, 4))
    /\ Near(State["b"].P[1], Rat(3, 4))
    /\ Near(State["b"].x[1], Rat(5, 4))
    /\ <<gain["b"][1], State["b"].P[1], State["b"].x[1]>>
          # <<Rat(1, 4), Rat(3, 4), Rat(5, 4)>>

\* The last call left parameter n a gradient other than the one it received.
Changed(n) == m[n].grad # raw[n].grad

\* C25 (as stated): the gradfilter_ema call that creates the state leaves
\* every gradient as it received it, for every alpha, lamb and trigger, and
\* a call changes a gradient only if it is untriggered and an earlier call
\* was untriggered too (the second untriggered call onward).
C25_ChangeOnlyFromSecondUntriggered ==
    (kind = "ema" /\ calls > 0) =>
        /\ prev = None => \A n \in NameSet : ~Changed(n)
        /\ \A n \in NameSet : Changed(n) => (~trig /\ ~alltrig)

\* The last call left parameter n a gradient that differs from the one it
\* received by more than rounding.
Moved(n) == Changed(n) /\ ~TNear(m[n].grad, raw[n].grad)

\* C25 (amended): the creating call leaves every gradient as it received
\* it up to rounding, for every alpha, lamb and trigger, and exactly so when
\* it is triggered; only an untriggered call changes a gradient at all, and
\* a call changes one by more than rounding only if it is untriggered and is
\* not the creating call, be it the first untriggered call or a later one.
C25_ChangeOnlyAfterCreation ==
    (kind = "ema" /\ calls > 0) =>
        /\ prev = None =>
              /\ err = "none"
              /\ \A n \in NameSet : ~Moved(n)
              /\ trig => \A n \in NameSet : ~Changed(n)
              /\ \A n \in NameSet : (HasGrad(raw, n) /\ ~trig) =>
                    m[n].grad = ema_grad(raw[n].grad, State[n], hp.lamb)
        /\ \A n \in NameSet : Changed(n) => ~trig
        /\ \A n \in NameSet : Moved(n) => (~trig /\ prev # None /\ calls > 1)

\* A triggered creating call followed by the first untriggered call, which
\* changes the gradient.
C25_Witness ==
    /\ kind = "ema" /\ Returned /\ calls = 2 /\ ~trig /\ alltrig
    /\ hp.alpha = PyRat(1, 2) /\ hp.lamb = PyNum(4)
    /\ HasGrad(raw, "a") /\ Changed("a")
    /\ prev # None

====
